---- MODULE Spec2Model ----
(***************************************************************************)
(* The step loop of KimiSoul (src/src/kimi_cli/soul/kimisoul.py) as a      *)
(* state machine: run, _agent_loop, _step, _grow_context, compact_context  *)
(* and the tenacity retry policy around the provider calls, together with  *)
(* the Context and DenwaRenji objects they drive.                          *)
(*                                                                         *)
(* Context (kimi_cli/soul/context.py) and DenwaRenji are not among the     *)
(* source files; they are modelled from the specification (sections 4.1,   *)
(* 4.4, 6 and 8).  Each awaited Context operation is one atomic step.      *)
(* The coroutine handed to asyncio.shield runs as a task of its own: it    *)
(* advances one Context operation at a time and survives the cancellation  *)
(* of the task that awaits it.                                             *)
(***************************************************************************)
EXTENDS Integers, Sequences, FiniteSets, TLC

(* ------------------------------ bounds -------------------------------- *)
\* Number of run() invocations the caller makes on one Context.
MaxRuns == 2
\* Number of loop iterations (StepBegin events) over all runs together.
MaxTurns == 3
\* loop_control.max_steps_per_run and loop_control.max_retries_per_step
\* (configuration values, kimisoul.py:154 and kimisoul.py:167).
max_steps_per_run == 2
max_retries_per_step == 4
\* Largest number of tool calls one model turn issues.
MaxToolCalls == 2
\* The same two limits where several runs follow one another.
MaxTurnsRuns == 3
MaxToolCallsRuns == 1
\* Number of TagContext calls, and the largest ttl_steps they give.
MaxTags == 1
MaxTtl == 1
\* Number of Context operations a caller other than the loop performs.
MaxOps == 4
\* Number of MetadataStore operations a caller performs directly.
MaxStoreOps == 4
\* Calls of CustomToolset.handle, and how deep they nest.
MaxHandles == 5
MaxDepth == 3
\* The task ids, ttl_steps and importances (1..5 in TagContext's Params) it
\* gives, and the steps it asks about: every step a pin can be created at,
\* and up to one step beyond.
Tasks == 1..2
TtlSteps == 1..2
Importances == {1, 3, 5}
QuerySteps == 0..MaxStoreOps

(* ------------------------- program constants -------------------------- *)
RESERVED_TOKENS == 50000
\* llm.max_context_size (kimisoul.py:67 requires it >= RESERVED_TOKENS).
max_context_size == RESERVED_TOKENS + 1
\* A model with room for one more token before the compaction test holds.
roomy_context_size == max_context_size + 1
\* The token figures a provider response reports: from none up to the
\* smallest one that makes the next iteration compact.
TokenValues == 0..(roomy_context_size - RESERVED_TOKENS)

(* ----------------------------- messages ------------------------------- *)
Msg(role, run, step, k) == [role |-> role, run |-> run, step |-> step, k |-> k]
\* The marker message of checkpoint id.
MarkerMessage(id) == Msg("marker", 0, 0, id)
UserMessage(run) == Msg("user", run, 0, 0)
AssistantMessage(run, step) == Msg("assistant", run, step, 0)
\* tool_result_to_messages of the k-th tool result of a step.
ToolMessage(run, step, k) == Msg("tool", run, step, k)
\* The advisory message BackToTheFuture carries (kimisoul.py:209-223).
DMailMessage(run, step, c) == Msg("dmail", run, step, c)
SummaryMessage(run, step) == Msg("summary", run, step, 0)

(* ------------------------------ Context ------------------------------- *)
EmptyContext == [history |-> <<>>, checkpoints |-> <<>>, token_count |-> 0]
NCheckpoints(ctx) == Len(ctx.checkpoints)
AppendMessage(ctx, msgs) == [ctx EXCEPT !.history = @ \o msgs]
\* A checkpoint that takes the place of the latest one.
CheckpointReplacingLast(ctx, marker) ==
  LET h == IF marker
           THEN Append(ctx.history, MarkerMessage(NCheckpoints(ctx)))
           ELSE ctx.history
      kept == IF ctx.checkpoints = <<>>
              THEN <<>>
              ELSE SubSeq(ctx.checkpoints, 1, Len(ctx.checkpoints) - 1)
  IN [ctx EXCEPT !.history = h,
                 !.checkpoints = Append(kept, [len |-> Len(h),
                                               tokens |-> ctx.token_count])]

\* checkpoint(include_marker_message): the marker first, then the checkpoint
\* at the current end of history; its id is n_checkpoints before insertion.
Checkpoint(ctx, marker) ==
  LET h == IF marker
           THEN Append(ctx.history, MarkerMessage(NCheckpoints(ctx)))
           ELSE ctx.history
  IN [ctx EXCEPT !.history = h,
                 !.checkpoints = Append(@, [len |-> Len(h),
                                            tokens |-> ctx.token_count])]
ValidCheckpoint(ctx, c) == c >= 0 /\ c < NCheckpoints(ctx)
\* The history captured at checkpoint c.
CapturedAt(ctx, c) == SubSeq(ctx.history, 1, ctx.checkpoints[c + 1].len)
\* A revert that keeps checkpoint c itself.
RevertToKeeping(ctx, c) ==
  [history |-> CapturedAt(ctx, c),
   checkpoints |-> SubSeq(ctx.checkpoints, 1, c + 1),
   token_count |-> ctx.checkpoints[c + 1].tokens]
\* A revert that leaves the token count as it is.
RevertToKeepingTokens(ctx, c) ==
  [history |-> CapturedAt(ctx, c),
   checkpoints |-> SubSeq(ctx.checkpoints, 1, c),
   token_count |-> ctx.token_count]

\* revert_to(c): back to the state captured at c; checkpoint c and the later
\* ones are removed, so that revert_to(c) followed by checkpoint() yields
\* n_checkpoints = c + 1 (sections 4.4 and 8).
RevertTo(ctx, c) ==
  [history |-> CapturedAt(ctx, c),
   checkpoints |-> SubSeq(ctx.checkpoints, 1, c),
   token_count |-> ctx.checkpoints[c + 1].tokens]
UpdateTokenCount(ctx, n) == [ctx EXCEPT !.token_count = n]
\* A revert that is refused only at and below checkpoint 0.
RevertFailsAtZero(ctx, c) == c <= 0 \/ c >= NCheckpoints(ctx)
\* revert_to(c) fails with InvalidCheckpoint: c is negative or not below the
\* current checkpoint count.
RevertFails(ctx, c) == c < 0 \/ c >= NCheckpoints(ctx)
\* get_recent_message_ids(n, roles): the up to n most recent messages whose
\* role is in roles, most recent last (a message stands for its identifier).
get_recent_message_ids(ctx, n, roles) ==
  LET InRoles(m) == m.role \in roles
      found == SelectSeq(ctx.history, InRoles)
  IN IF Len(found) <= n THEN found
     ELSE SubSeq(found, Len(found) - n + 1, Len(found))

(* --------------------------- Metadata Store --------------------------- *)
\* The records of the log, told apart by their type field.
PinRecord(task, ids, policy, ttl, importance, notes, step) ==
  [type |-> "tag", task_id |-> task, message_ids |-> ids, policy |-> policy,
   ttl_steps |-> ttl, importance |-> importance, notes |-> notes,
   created_at_step |-> step]
TodoTaskMap(todo, task) == [type |-> "map", todo_id |-> todo, task_id |-> task]
ArtifactRecord(task, kind) ==
  [type |-> "artifact", task_id |-> task, kind |-> kind]
\* A tag that replaces the earlier tag records of the same task.
TagSuperseding(log, task, ids, policy, ttl, importance, notes, step) ==
  LET Other(r) == ~(r.type = "tag" /\ r.task_id = task)
  IN Append(SelectSeq(log, Other),
            PinRecord(task, ids, policy, ttl, importance, notes, step))
\* tag(...): appends a PinRecord stamped with the store's step counter.
Tag(log, task, ids, policy, ttl, importance, notes, step) ==
  Append(log, PinRecord(task, ids, policy, ttl, importance, notes, step))
\* map_todo_task(todo_id, task_id) and record_artifact(task_id, kind).
map_todo_task(log, todo, task) == Append(log, TodoTaskMap(todo, task))
record_artifact(log, task, kind) == Append(log, ArtifactRecord(task, kind))
\* Tag records that stay active one step longer.
ActivePinsInclusive(log, step) ==
  LET Active(r) == r.type = "tag" /\ step <= r.created_at_step + r.ttl_steps
  IN SelectSeq(log, Active)
\* The tag records whose TTL has not elapsed at step, in log order.
ActivePins(log, step) ==
  LET Active(r) == r.type = "tag" /\ step < r.created_at_step + r.ttl_steps
  IN SelectSeq(log, Active)
\* An insertion that puts a pin in front of the pins of its own importance.
InsertPinBeforeTies(sorted, p) ==
  LET k == Cardinality({i \in DOMAIN sorted :
                          sorted[i].importance > p.importance})
  IN SubSeq(sorted, 1, k) \o <<p>> \o SubSeq(sorted, k + 1, Len(sorted))
\* Stable sort by importance, descending: each pin goes behind the pins that
\* are at least as important and were logged before it.
InsertPin(sorted, p) ==
  LET k == Cardinality({i \in DOMAIN sorted :
                          sorted[i].importance >= p.importance})
  IN SubSeq(sorted, 1, k) \o <<p>> \o SubSeq(sorted, k + 1, Len(sorted))
RECURSIVE SortPins(_)
SortPins(s) ==
  IF s = <<>> THEN <<>>
  ELSE InsertPin(SortPins(SubSeq(s, 1, Len(s) - 1)), s[Len(s)])
\* list_active_pins(step): the active tag records, most important first.
list_active_pins(log, step) == SortPins(ActivePins(log, step))
\* A listing of every record that names a task.
list_todo_task_maps_unfiltered(log) ==
  LET Named(r) == r.type \in {"map", "artifact"} IN SelectSeq(log, Named)
\* list_todo_task_maps(): the map records, in log order.
list_todo_task_maps(log) ==
  LET IsMap(r) == r.type = "map" IN SelectSeq(log, IsMap)

(* --------------------------- provider values -------------------------- *)
NoUsage == [some |-> FALSE, input |-> 0, total |-> 0]
Usages ==
  {NoUsage} \cup
  {[some |-> TRUE, input |-> i, total |-> t] :
     <<i, t>> \in {p \in TokenValues \X TokenValues : p[1] <= p[2]}}
StepResults == [tool_calls : 0..MaxToolCalls, usage : Usages]
NoResult == [tool_calls |-> 0, usage |-> NoUsage]
\* A tool result: ToolRejectedError ("rejected") or anything else ("ok": the
\* loop does not tell ToolOk from another ToolError).
ResultKinds == {"ok", "rejected"}

NoError == [kind |-> "none", status_code |-> 0]
CancelledError == [kind |-> "CancelledError", status_code |-> 0]
AssertionError == [kind |-> "AssertionError", status_code |-> 0]
StatusCodes == {401, 429, 500, 502, 503}
\* The errors a provider call raises: subclasses of ChatProviderError.
ProviderErrors ==
  {[kind |-> "APIConnectionError", status_code |-> 0],
   [kind |-> "APITimeoutError", status_code |-> 0],
   [kind |-> "ChatProviderError", status_code |-> 0]} \cup
  {[kind |-> "APIStatusError", status_code |-> s] : s \in StatusCodes}
IsChatProviderError(e) ==
  e.kind \in {"APIConnectionError", "APITimeoutError", "APIStatusError",
              "ChatProviderError"}

(* ---------------------------- retry policy ---------------------------- *)
\* A classification that also retries every status error.
RetryEveryStatus(e) ==
  e.kind \in {"APIConnectionError", "APITimeoutError", "APIStatusError"}
\* KimiSoul._is_retryable_error.
is_retryable_error(e) ==
  \/ e.kind \in {"APIConnectionError", "APITimeoutError"}
  \/ e.kind = "APIStatusError" /\ e.status_code \in {429, 500, 502, 503}
\* A stop condition that gives up one attempt early.
StopOneAttemptEarly(attempt_number) ==
  attempt_number >= max_retries_per_step - 1
\* stop=stop_after_attempt(max_retries_per_step).
stop_after_attempt(attempt_number) == attempt_number >= max_retries_per_step
\* reraise=False: tenacity raises its own RetryError around the exception.
WrapInRetryError(e) == [kind |-> "RetryError", status_code |-> e.status_code]
\* reraise=True: the exception of the last attempt itself is raised.
Reraise(e) == e
\* What tenacity does with an attempt that raised e: "retry" (sleep, then
\* call again) or "raise".
RetryDecision(e, attempt_number) ==
  IF ~is_retryable_error(e) THEN "raise"
  ELSE IF stop_after_attempt(attempt_number) THEN "raise"
  ELSE "retry"

(* ------------------------------ wire ---------------------------------- *)
Event(type, n) == [type |-> type, n |-> n]
StepBeginEvent(n) == Event("StepBegin", n)
StepInterrupted == Event("StepInterrupted", 0)
CompactionBegin == Event("CompactionBegin", 0)
CompactionEnd == Event("CompactionEnd", 0)

(* ------------------------- shielded growth ---------------------------- *)
NoMsg == Msg("none", 0, 0, 0)
AppendOp(m) == [op |-> "append", msg |-> m, n |-> 0]
TokenOp(n) == [op |-> "tokens", msg |-> NoMsg, n |-> n]
\* The Context operations of _grow_context(result, tool_results), in order.
GrowOps(run, step, res) ==
  <<AppendOp(AssistantMessage(run, step))>>
  \o (IF res.usage.some THEN <<TokenOp(res.usage.total)>> ELSE <<>>)
  \o [k \in 1..res.tool_calls |-> AppendOp(ToolMessage(run, step, k))]
ApplyOp(ctx, o) ==
  IF o.op = "append" THEN AppendMessage(ctx, <<o.msg>>)
  ELSE UpdateTokenCount(ctx, o.n)

(* ------------------------------ state --------------------------------- *)
VARIABLES
  limits,                        \* the behaviours explored: runs, iterations, tool
                                 \* calls per turn, tags, direct Context calls,
                                 \* llm.max_context_size
  llm_set,                       \* runtime.llm is not None
  checkpoint_with_user_message,  \* the toolset holds the SendDMail tool
  context,                       \* Context: history, checkpoints, token_count
  pending_dmail,                 \* DenwaRenji: target of the pending D-Mail, -1 if none
  denwa_n,                       \* DenwaRenji: count last given to set_n_checkpoints
  sent_now,                      \* a tool call of the current step sent a D-Mail
  turns,                         \* loop iterations begun so far, over all runs
  pc,                            \* position of the task that executes run()
  run_no,                        \* number of the current (or last) run
  step_no,                       \* _agent_loop's step_no
  attempt,                       \* tenacity's attempt_number of the call in progress
  calls,                         \* invocations of the wrapped call made so far
  last_err,                      \* exception of the latest failed attempt
  result,                        \* the StepResult of the current step
  tool_results,                  \* the tool results of the current step
  grow,                          \* Context operations left to the shielded task
  orphans,                       \* shielded tasks whose awaiting run was cancelled
  approval_alive,                \* approval tasks created and not yet cancelled
  wire,                          \* events sent to the wire during the current run
  outcome,                       \* how the last run ended, "running" during a run
  raised,                        \* the exception the last run raised
  bttf,                          \* the BackToTheFuture exception being handled
  compacted,                     \* compacted_messages of compact_context
  current_step,                  \* MetadataStore: the step counter
  pins,                          \* MetadataStore: the records of the log
  ctx_call,                      \* the latest direct call of a Context operation
  meta_call,                     \* the latest call of TagContext or of a
                                 \* MetadataStore operation, and what it returned
  shell,                         \* ShellApp: where its prompt loop is, the SIGINT
                                 \* handlers installed, what the command returned
  current_tool_call,             \* the ContextVar current_tool_call
  handling,                      \* the calls of CustomToolset.handle in progress,
                                 \* the outermost first, each with its token
  handled                        \* the latest call of handle that ended, and how

vars ==
  <<limits, llm_set, checkpoint_with_user_message, context, pending_dmail, denwa_n,
    sent_now, turns, pc, run_no, step_no, attempt, calls, last_err,
    result, tool_results, grow, orphans, approval_alive, wire, outcome,
    raised, bttf, compacted, current_step, pins, ctx_call, meta_call,
    shell, current_tool_call, handling, handled>>

config == <<limits, llm_set, checkpoint_with_user_message>>
denwa == <<pending_dmail, denwa_n, sent_now, turns>>
retry == <<attempt, calls, last_err>>
meta == <<current_step, pins, meta_call>>
toolset == <<current_tool_call, handling, handled>>

\* ShellApp at its prompt, before any command.
AtPrompt == [pc |-> "prompt", handlers |-> 0, removed |-> 0, ret |-> "none",
             run |-> 0]
\* No TagContext call and no MetadataStore operation has been made.
NoMetaCall == [op |-> "none", n |-> 0, status |-> "none", output |-> "none",
               step |-> 0, result |-> <<>>]

\* ContextVar("current_tool_call", default=None) (toolset.py:10).
NoToolCall == 0
\* No call of CustomToolset.handle has ended.
NoHandle == [n |-> 0, tool_call |-> NoToolCall, how |-> "none"]

\* No Context operation has been called directly.
NoCall == [op |-> "none", c |-> 0, marker |-> FALSE, error |-> "none",
           captured_len |-> 0, n |-> 0, checkpoints |-> 0, reverts |-> 0]

NoBTTF == [some |-> FALSE, checkpoint_id |-> 0, message |-> NoMsg,
           step |-> 0, captured |-> <<>>]

\* A fresh Context and a KimiSoul just constructed.
Fresh ==
  /\ llm_set \in BOOLEAN
  /\ checkpoint_with_user_message \in BOOLEAN
  /\ context = EmptyContext
  /\ pending_dmail = -1
  /\ denwa_n = 0
  /\ sent_now = FALSE
  /\ turns = 0
  /\ pc = "idle"
  /\ run_no = 0
  /\ step_no = 0
  /\ attempt = 0
  /\ calls = 0
  /\ last_err = NoError
  /\ result = NoResult
  /\ tool_results = <<>>
  /\ grow = <<>>
  /\ orphans = <<>>
  /\ approval_alive = 0
  /\ wire = <<>>
  /\ outcome = "none"
  /\ raised = NoError
  /\ bttf = NoBTTF
  /\ compacted = <<>>
  /\ current_step = 0
  /\ pins = <<>>
  /\ ctx_call = NoCall
  /\ meta_call = NoMetaCall
  /\ shell = AtPrompt
  /\ current_tool_call = NoToolCall
  /\ handling = <<>>
  /\ handled = NoHandle

\* One invocation of run().
Init ==
  Fresh /\ limits = [runs |-> 1, turns |-> MaxTurns, tool_calls |-> MaxToolCalls,
                      tags |-> 0, ops |-> 0,
                      shell |-> FALSE, store_ops |-> 0,
                      handles |-> 0, max_context_size |-> max_context_size]
\* Successive invocations of run() on the same KimiSoul and Context.
InitRuns ==
  Fresh /\ limits = [runs |-> MaxRuns, turns |-> MaxTurnsRuns,
                      tool_calls |-> MaxToolCallsRuns, tags |-> 0, ops |-> 0,
                      shell |-> FALSE, store_ops |-> 0,
                      handles |-> 0, max_context_size |-> max_context_size]

InitMeta ==
  Fresh /\ limits = [runs |-> MaxRuns, turns |-> MaxTurnsRuns,
                      tool_calls |-> MaxToolCallsRuns, tags |-> MaxTags,
                      ops |-> 0, shell |-> FALSE, store_ops |-> 0,
                      handles |-> 0, max_context_size |-> max_context_size]
\* One invocation of run() with the roomier model.
InitTokens ==
  Fresh /\ limits = [runs |-> 1, turns |-> MaxTurns,
                      tool_calls |-> MaxToolCallsRuns, tags |-> 0, ops |-> 0,
                      shell |-> FALSE, store_ops |-> 0,
                      handles |-> 0, max_context_size |-> roomy_context_size]
\* Successive runs whose turns issue enough tool calls for the history to
\* hold more assistant and tool messages than a TagContext call infers.
InitTag ==
  Fresh /\ limits = [runs |-> MaxRuns, turns |-> MaxTurnsRuns,
                      tool_calls |-> MaxToolCalls, tags |-> MaxTags,
                      ops |-> 0, shell |-> FALSE, store_ops |-> 0,
                      handles |-> 0, max_context_size |-> max_context_size]
\* Successive runs, each started by a command given to ShellApp.
InitShell ==
  Fresh /\ limits = [runs |-> MaxRuns, turns |-> MaxTurnsRuns,
                      tool_calls |-> MaxToolCallsRuns, tags |-> 0, ops |-> 0,
                      shell |-> TRUE, store_ops |-> 0,
                      handles |-> 0, max_context_size |-> max_context_size]
\* One invocation of run() whose iterations are not bounded by the model.
InitLive ==
  Fresh /\ limits = [runs |-> 1, turns |-> 0 - 1,
                      tool_calls |-> MaxToolCallsRuns, tags |-> 0, ops |-> 0,
                      shell |-> FALSE, store_ops |-> 0,
                      handles |-> 0, max_context_size |-> max_context_size]
\* No run at all: the MetadataStore is used directly.
InitStore ==
  Fresh /\ llm_set /\ checkpoint_with_user_message
        /\ limits = [runs |-> 0, turns |-> 0, tool_calls |-> 0, tags |-> 0,
                      ops |-> 0, shell |-> FALSE, store_ops |-> MaxStoreOps,
                      handles |-> 0, max_context_size |-> max_context_size]
\* No run at all: a CustomToolset is given tool calls to handle.
InitToolset ==
  Fresh /\ llm_set /\ checkpoint_with_user_message
        /\ limits = [runs |-> 0, turns |-> 0, tool_calls |-> 0, tags |-> 0,
                      ops |-> 0, shell |-> FALSE, store_ops |-> 0,
                      handles |-> MaxHandles,
                      max_context_size |-> max_context_size]
\* No run at all: the Context is used directly.
InitContext ==
  Fresh /\ limits = [runs |-> 0, turns |-> 0, tool_calls |-> 0, tags |-> 0,
                      ops |-> MaxOps, shell |-> FALSE, store_ops |-> 0,
                      handles |-> 0, max_context_size |-> max_context_size]

(* ------------------------- shared fragments --------------------------- *)
\* Whether the iterations begun are counted and what only accumulates is
\* kept: a negative limits.turns leaves a run free to iterate without bound;
\* the event sink then keeps nothing of what it is sent, and the history
\* keeps no marker messages (neither has a part in the control flow of the
\* loop).
Counting == limits.turns >= 0
\* self._context.checkpoint(self._checkpoint_with_user_message)
\* (kimisoul.py:95).
WithMarker == checkpoint_with_user_message /\ Counting
\* wire_send(ev) for each event of evs, in order.
WireSend(evs) == IF Counting THEN wire \o evs ELSE wire
\* A finally clause that leaves the approval task alone.
FinallyWithoutCancel(alive) == alive
\* finally: approval_task.cancel() (kimisoul.py:147-148).
Finally(alive) == alive - 1
\* A limit test that never fires.
ExceedsNever(n) == FALSE

\* A limit test that already fires at the limit.
ExceedsAtLimit(n) == n >= max_steps_per_run
\* if step_no > self._loop_control.max_steps_per_run (kimisoul.py:154).
ExceedsMaxSteps(n) == n > max_steps_per_run
MaxStepsReached == [kind |-> "MaxStepsReached", status_code |-> 0]
LLMNotSet == [kind |-> "LLMNotSet", status_code |-> 0]
InvalidCheckpoint == [kind |-> "InvalidCheckpoint", status_code |-> 0]
\* A compaction test that needs the margin to be exceeded.
NeedCompactionStrict(ctx) ==
  ctx.token_count + RESERVED_TOKENS > limits.max_context_size

\* The condition of kimisoul.py:125-128.
NeedCompaction(ctx) ==
  ctx.token_count + RESERVED_TOKENS >= limits.max_context_size
OutcomeOf(e) ==
  IF e.kind = "CancelledError" THEN "Cancelled"
  ELSE IF IsChatProviderError(e) THEN "ChatProviderError"
  ELSE e.kind
\* An except clause that swallows e: the loop just ends.
AbortSwallowing(e) ==
  /\ wire' = Append(wire, StepInterrupted)
  /\ approval_alive' = Finally(approval_alive)
  /\ outcome' = "finished"
  /\ raised' = NoError
  /\ pc' = "idle"
\* An abort that sends no StepInterrupted.
AbortLoopSilently(e) ==
  /\ approval_alive' = Finally(approval_alive)
  /\ outcome' = OutcomeOf(e)
  /\ raised' = e
  /\ pc' = "idle"
  /\ UNCHANGED wire

\* except (ChatProviderError, asyncio.CancelledError): StepInterrupted is
\* sent, the finally clause runs and e leaves run().
AbortLoop(e) ==
  /\ wire' = WireSend(<<StepInterrupted>>)
  /\ approval_alive' = Finally(approval_alive)
  /\ outcome' = OutcomeOf(e)
  /\ raised' = e
  /\ pc' = "idle"
\* An exception no except clause names: only the finally clause runs.
PropagateLoop(e) ==
  /\ approval_alive' = Finally(approval_alive)
  /\ outcome' = OutcomeOf(e)
  /\ raised' = e
  /\ pc' = "idle"
  /\ UNCHANGED wire
\* return from run().
ReturnLoop ==
  /\ approval_alive' = Finally(approval_alive)
  /\ outcome' = "finished"
  /\ raised' = NoError
  /\ pc' = "idle"
  /\ UNCHANGED wire

(* ------------------------------- run ---------------------------------- *)
\* Under ShellApp a run is what run_soul starts for the command in progress.
ShellAllows == limits.shell => (shell.pc = "run_soul" /\ run_no = shell.run)
\* run() with no LLM configured: LLMNotSet before anything else.
RunLLMNotSet ==
  /\ pc = "idle" /\ run_no < limits.runs /\ ~llm_set
  /\ ShellAllows
  /\ run_no' = run_no + 1
  /\ wire' = <<>>
  /\ outcome' = "LLMNotSet"
  /\ raised' = LLMNotSet
  /\ UNCHANGED <<config, toolset, shell, meta, ctx_call, context, denwa, pc, step_no, retry, result,
                 tool_results, grow, orphans, approval_alive, bttf, compacted>>

RunStart ==
  /\ pc = "idle" /\ run_no < limits.runs /\ llm_set
  /\ ShellAllows
  /\ run_no' = run_no + 1
  /\ wire' = <<>>
  /\ outcome' = "running"
  /\ raised' = NoError
  /\ pc' = "run_checkpoint"
  /\ step_no' = 0
  /\ attempt' = 0 /\ calls' = 0 /\ last_err' = NoError
  /\ result' = NoResult /\ tool_results' = <<>>
  /\ UNCHANGED <<config, toolset, shell, meta, ctx_call, context, denwa, grow, orphans, approval_alive,
                 bttf, compacted>>

\* await self._checkpoint()
RunCheckpoint ==
  /\ pc = "run_checkpoint"
  /\ context' = Checkpoint(context, WithMarker)
  /\ pc' = "run_append"
  /\ UNCHANGED <<config, toolset, shell, meta, ctx_call, denwa, run_no, step_no, retry, result, tool_results,
                 grow, orphans, approval_alive, wire, outcome, raised, bttf,
                 compacted>>

\* await self._context.append_message(Message(role="user", ...)); step_no = 1
RunAppendUser ==
  /\ pc = "run_append"
  /\ context' = AppendMessage(context, <<UserMessage(run_no)>>)
  /\ step_no' = 1
  /\ pc' = "loop_top"
  /\ UNCHANGED <<config, toolset, shell, meta, ctx_call, denwa, run_no, retry, result, tool_results, grow,
                 orphans, approval_alive, wire, outcome, raised, bttf,
                 compacted>>

(* --------------------------- _agent_loop ------------------------------ *)
\* wire_send(StepBegin(step_no)); create_task(_pipe_approval_to_wire()); the
\* compaction test; CompactionBegin when it holds.
StepBegin ==
  /\ pc = "loop_top"
  /\ Counting => turns < limits.turns
  /\ turns' = IF Counting THEN turns + 1 ELSE turns
  /\ approval_alive' = approval_alive + 1
  /\ bttf' = NoBTTF
  /\ IF NeedCompaction(context)
     THEN /\ wire' = WireSend(<<StepBeginEvent(step_no), CompactionBegin>>)
          /\ pc' = "compact_call"
          /\ attempt' = 1 /\ calls' = 0 /\ last_err' = NoError
     ELSE /\ wire' = WireSend(<<StepBeginEvent(step_no)>>)
          /\ pc' = "checkpoint"
          /\ UNCHANGED retry
  /\ UNCHANGED <<config, toolset, shell, meta, ctx_call, context, pending_dmail, denwa_n, sent_now, run_no,
                 step_no, result, tool_results, grow, orphans, outcome, raised,
                 compacted>>

\* await self._checkpoint(); self._denwa_renji.set_n_checkpoints(...)
StepCheckpoint ==
  /\ pc = "checkpoint"
  /\ context' = Checkpoint(context, WithMarker)
  /\ denwa_n' = NCheckpoints(context')
  /\ pc' = "provider"
  /\ attempt' = 1 /\ calls' = 0 /\ last_err' = NoError
  /\ UNCHANGED <<config, toolset, shell, meta, ctx_call, pending_dmail, sent_now, turns, run_no,
                 step_no, result, tool_results, grow, orphans, approval_alive,
                 wire, outcome, raised, bttf, compacted>>

(* ------------------------------ _step --------------------------------- *)
\* A provider success that already appends the model's message.
ProviderOkGrowing(res) ==
  /\ pc = "provider"
  /\ res.tool_calls <= limits.tool_calls
  /\ res.usage.total + RESERVED_TOKENS <= limits.max_context_size
  /\ calls' = calls + 1
  /\ last_err' = NoError
  /\ result' = res
  /\ context' = AppendMessage(context, <<AssistantMessage(run_no, step_no)>>)
  /\ pc' = "tools"
  /\ UNCHANGED <<config, toolset, shell, meta, ctx_call, denwa, run_no, step_no, attempt,
                 tool_results, grow, orphans, approval_alive, wire, outcome,
                 raised, bttf, compacted>>

\* A provider success that never lets the token count fall.
ProviderOkClamping(res) ==
  /\ pc = "provider"
  /\ res.tool_calls <= limits.tool_calls
  /\ res.usage.total + RESERVED_TOKENS <= limits.max_context_size
  /\ calls' = calls + 1
  /\ last_err' = NoError
  /\ result' = res
  /\ context' = IF res.usage.some /\ res.usage.input > context.token_count
                THEN UpdateTokenCount(context, res.usage.input)
                ELSE context
  /\ pc' = "tools"
  /\ UNCHANGED <<config, toolset, shell, meta, ctx_call, denwa, run_no, step_no, attempt,
                 tool_results, grow, orphans, approval_alive, wire, outcome,
                 raised, bttf, compacted>>

\* An attempt of kosong.step succeeds and the retry wrapper returns its
\* result; usage, when reported, sets the token count to usage.input.  (The
\* StatusUpdate sent with it carries no step information
\* and is not recorded in wire.)
ProviderOk(res) ==
  /\ pc = "provider"
  /\ res.tool_calls <= limits.tool_calls
  /\ res.usage.total + RESERVED_TOKENS <= limits.max_context_size
  /\ calls' = calls + 1
  /\ last_err' = NoError
  /\ result' = res
  /\ context' = IF res.usage.some
                THEN UpdateTokenCount(context, res.usage.input)
                ELSE context
  /\ pc' = "tools"
  /\ UNCHANGED <<config, toolset, shell, meta, ctx_call, denwa, run_no, step_no, attempt, tool_results, grow,
                 orphans, approval_alive, wire, outcome, raised, bttf,
                 compacted>>

\* A failed attempt that leaves a trace in the Context: the token count is
\* reset before tenacity retries or raises.
ProviderFailTouching(e) ==
  /\ pc = "provider"
  /\ calls' = calls + 1
  /\ last_err' = e
  /\ context' = UpdateTokenCount(context, context.token_count + 1)
  /\ IF RetryDecision(e, attempt) = "retry"
     THEN /\ attempt' = attempt + 1
          /\ UNCHANGED <<pc, wire, approval_alive, outcome, raised>>
     ELSE /\ AbortLoop(Reraise(e))
          /\ UNCHANGED attempt
  /\ UNCHANGED <<config, toolset, shell, meta, ctx_call, denwa, run_no, step_no, result,
                 tool_results, grow, orphans, bttf, compacted>>

\* An attempt of kosong.step raises e: tenacity retries or raises.
ProviderFail(e) ==
  /\ pc = "provider"
  /\ calls' = calls + 1
  /\ last_err' = e
  /\ IF RetryDecision(e, attempt) = "retry"
     THEN /\ attempt' = attempt + 1
          /\ UNCHANGED <<pc, wire, approval_alive, outcome, raised>>
     ELSE /\ AbortLoop(Reraise(e))
          /\ UNCHANGED attempt
  /\ UNCHANGED <<config, toolset, shell, meta, ctx_call, context, denwa, run_no, step_no, result,
                 tool_results, grow, orphans, bttf, compacted>>

\* DenwaRenji.send_dmail, called by the SendDMail tool while the tool calls
\* of the step execute: one pending D-Mail at most, target below the count
\* last given to set_n_checkpoints.
SendDMail(c) ==
  /\ pc = "tools"
  /\ checkpoint_with_user_message
  /\ result.tool_calls >= 1
  /\ ~sent_now
  /\ pending_dmail = -1
  /\ c >= 0 /\ c < denwa_n
  /\ pending_dmail' = c
  /\ sent_now' = TRUE
  /\ UNCHANGED <<config, toolset, shell, meta, ctx_call, context, denwa_n, turns, pc, run_no, step_no, retry,
                 result, tool_results, grow, orphans, approval_alive, wire,
                 outcome, raised, bttf, compacted>>

\* The message_ids a TagContext call gives explicitly: none, or the user
\* message of the first run.
ExplicitIds == {<<>>, <<UserMessage(1)>>}

\* The Params of a TagContext call: message_ids None (infer) or a list, and
\* two settings of the other fields, the defaults and non-default ones.
ParamsOf(t, infer, ids, ttl) ==
  [task_id |-> t, infer |-> infer, message_ids |-> ids, ttl_steps |-> ttl,
   policy |-> IF t = 1 THEN "pin_outcome" ELSE "pin_process",
   importance |-> IF t = 1 THEN 3 ELSE 5,
   notes |-> IF t = 1 THEN "" ELSE "keep"]
TagParams ==
  {ParamsOf(t, FALSE, ids, ttl) :
     t \in Tasks, ids \in ExplicitIds, ttl \in 1..MaxTtl}
  \cup {ParamsOf(t, TRUE, <<>>, ttl) : t \in Tasks, ttl \in 1..MaxTtl}
\* What a call returned: the tool's ToolOk/ToolError and its message, or the
\* sequence a read operation of the store returned for the step it used.
MetaCalled(op, status, output, step, res) ==
  [op |-> op, n |-> meta_call.n + 1, status |-> status, output |-> output,
   step |-> step, result |-> res]

\* A TagContext call that tags even when it infers no message.
TagContextAlways(has_context, params) ==
  /\ pc = "tools"
  /\ result.tool_calls >= 1
  /\ meta_call.n < limits.tags
  /\ LET message_ids ==
           IF params.infer
           THEN get_recent_message_ids(context, 5, {"assistant", "tool"})
           ELSE params.message_ids
     IN /\ pins' = Tag(pins, params.task_id, message_ids, params.policy,
                       params.ttl_steps, params.importance, params.notes,
                       current_step)
        /\ meta_call' = MetaCalled("TagContext", "ToolOk", "Tagged",
                                   current_step, message_ids)
  /\ UNCHANGED <<config, toolset, shell, current_step, ctx_call, context, denwa, pc, run_no,
                 step_no, retry, result, tool_results, grow, orphans,
                 approval_alive, wire, outcome, raised, bttf, compacted>>

\* TagContext.__call__, called while the tool calls of the step execute.
\* Without a current Context: ToolError.  message_ids given, or inferred from
\* the up to 5 most recent assistant/tool messages; nothing is tagged when
\* none is inferred.
TagContext(has_context, params) ==
  /\ pc = "tools"
  /\ result.tool_calls >= 1
  /\ meta_call.n < limits.tags
  /\ LET inferred ==
           get_recent_message_ids(context, 5, {"assistant", "tool"})
         message_ids == IF params.infer THEN inferred ELSE params.message_ids
     IN IF ~has_context
        THEN /\ meta_call' = MetaCalled("TagContext", "ToolError",
                                        "Context not available",
                                        current_step, <<>>)
             /\ UNCHANGED pins
        ELSE IF params.infer /\ inferred = <<>>
        THEN /\ meta_call' = MetaCalled("TagContext", "ToolOk",
                                        "No recent messages found",
                                        current_step, <<>>)
             /\ UNCHANGED pins
        ELSE /\ pins' = Tag(pins, params.task_id, message_ids, params.policy,
                            params.ttl_steps, params.importance,
                            params.notes, current_step)
             /\ meta_call' = MetaCalled("TagContext", "ToolOk", "Tagged",
                                        current_step, message_ids)
  /\ UNCHANGED <<config, toolset, shell, current_step, ctx_call, context, denwa, pc, run_no,
                 step_no, retry, result, tool_results, grow, orphans,
                 approval_alive, wire, outcome, raised, bttf, compacted>>

\* await result.tool_results() returns; asyncio.shield(self._grow_context(...))
\* starts the task that grows the context.  (The bookkeeping of the provider
\* call's retry wrapper is dropped here.)
ToolsDone(rs) ==
  /\ pc = "tools"
  /\ sent_now => \E k \in DOMAIN rs : rs[k] = "ok"
  /\ tool_results' = rs
  /\ grow' = GrowOps(run_no, step_no, result)
  /\ sent_now' = FALSE
  /\ attempt' = 0 /\ calls' = 0 /\ last_err' = NoError
  /\ pc' = "shield"
  /\ UNCHANGED <<config, toolset, shell, meta, ctx_call, context, pending_dmail, denwa_n, turns, run_no,
                 step_no, result, orphans, approval_alive, wire,
                 outcome, raised, bttf, compacted>>

\* The shielded task performs its next Context operation.
GrowStep ==
  /\ pc = "shield" /\ grow # <<>>
  /\ context' = ApplyOp(context, Head(grow))
  /\ grow' = Tail(grow)
  /\ UNCHANGED <<config, toolset, shell, meta, ctx_call, denwa, pc, run_no, step_no, retry, result,
                 tool_results, orphans, approval_alive, wire, outcome, raised,
                 bttf, compacted>>

\* A shielded task whose run was cancelled performs its next operation.
OrphanStep(i) ==
  /\ i \in DOMAIN orphans
  /\ context' = ApplyOp(context, Head(orphans[i]))
  /\ orphans' = IF Len(orphans[i]) = 1
                THEN SubSeq(orphans, 1, i - 1) \o SubSeq(orphans, i + 1, Len(orphans))
                ELSE [orphans EXCEPT ![i] = Tail(@)]
  /\ UNCHANGED <<config, toolset, shell, meta, ctx_call, denwa, pc, run_no, step_no, retry, result,
                 tool_results, grow, approval_alive, wire, outcome, raised,
                 bttf, compacted>>

Rejected(rs) == \E k \in DOMAIN rs : rs[k] = "rejected"
\* The shielded task is done and _step goes on.
AfterShield == pc = "shield" /\ grow = <<>>

\* A rejection that raises instead of ending the run as finished.
StepRejectedRaises ==
  /\ AfterShield /\ Rejected(tool_results)
  /\ pending_dmail' = -1
  /\ PropagateLoop([kind |-> "ToolRejectedError", status_code |-> 0])
  /\ UNCHANGED <<config, toolset, shell, meta, ctx_call, context, denwa_n, sent_now, turns, run_no,
                 step_no, retry, result, tool_results, grow, orphans, bttf,
                 compacted>>

\* A rejection that leaves the pending D-Mail where it is.
StepRejectedKeepsDMail ==
  /\ AfterShield /\ Rejected(tool_results)
  /\ ReturnLoop
  /\ UNCHANGED <<config, toolset, shell, meta, ctx_call, context, denwa, run_no, step_no,
                 retry, result, tool_results, grow, orphans, bttf, compacted>>

\* rejected: the pending D-Mail is fetched and dropped, _step returns True.
StepRejected ==
  /\ AfterShield /\ Rejected(tool_results)
  /\ pending_dmail' = -1
  /\ ReturnLoop
  /\ UNCHANGED <<config, toolset, shell, meta, ctx_call, context, denwa_n, sent_now, turns, run_no,
                 step_no, retry, result, tool_results, grow, orphans, bttf,
                 compacted>>

\* A time-travel signal that is raised past the loop.
StepTimeTravelEscapes ==
  /\ AfterShield /\ ~Rejected(tool_results)
  /\ pending_dmail # -1 /\ ValidCheckpoint(context, pending_dmail)
  /\ pending_dmail' = -1
  /\ PropagateLoop([kind |-> "BackToTheFuture", status_code |-> 0])
  /\ UNCHANGED <<config, toolset, shell, meta, ctx_call, context, denwa_n, sent_now, turns,
                 run_no, step_no, retry, result, tool_results, grow, orphans,
                 bttf, compacted>>

\* A D-Mail is pending and both assertions hold: BackToTheFuture is raised
\* and caught by the loop.
StepTimeTravel ==
  /\ AfterShield /\ ~Rejected(tool_results)
  /\ pending_dmail # -1 /\ ValidCheckpoint(context, pending_dmail)
  /\ pending_dmail' = -1
  /\ bttf' = [some |-> TRUE, checkpoint_id |-> pending_dmail,
              message |-> DMailMessage(run_no, step_no, pending_dmail),
              step |-> step_no,
              captured |-> CapturedAt(context, pending_dmail)]
  /\ pc' = "bttf_revert"
  /\ result' = NoResult /\ tool_results' = <<>>
  /\ UNCHANGED <<config, toolset, shell, meta, ctx_call, context, denwa_n, sent_now, turns, run_no,
                 step_no, retry, grow, orphans, approval_alive, wire, outcome,
                 raised, compacted>>

\* A D-Mail is pending and an assertion of kimisoul.py:202-205 fails.
StepAssertFails ==
  /\ AfterShield /\ ~Rejected(tool_results)
  /\ pending_dmail # -1 /\ ~ValidCheckpoint(context, pending_dmail)
  /\ pending_dmail' = -1
  /\ PropagateLoop(AssertionError)
  /\ UNCHANGED <<config, toolset, shell, meta, ctx_call, context, denwa_n, sent_now, turns, run_no,
                 step_no, retry, result, tool_results, grow, orphans, bttf,
                 compacted>>

\* return not result.tool_calls, with no tool call: the run is finished.
StepFinished ==
  /\ AfterShield /\ ~Rejected(tool_results)
  /\ pending_dmail = -1
  /\ result.tool_calls = 0
  /\ ReturnLoop
  /\ UNCHANGED <<config, toolset, shell, meta, ctx_call, context, denwa, run_no, step_no, retry, result,
                 tool_results, grow, orphans, bttf, compacted>>

\* A loop that goes on without counting the step.
StepContinueSameStep ==
  /\ AfterShield /\ ~Rejected(tool_results)
  /\ pending_dmail = -1
  /\ result.tool_calls > 0
  /\ approval_alive' = Finally(approval_alive)
  /\ pc' = "loop_top"
  /\ result' = NoResult /\ tool_results' = <<>>
  /\ UNCHANGED <<config, toolset, shell, meta, ctx_call, context, denwa, run_no, step_no,
                 retry, grow, orphans, wire, outcome, raised, bttf,
                 compacted>>

\* return not result.tool_calls, with tool calls: step_no += 1, and
\* MaxStepsReached when it exceeds max_steps_per_run.  The locals of _step
\* (result, results) are gone when the loop goes on.
StepContinue ==
  /\ AfterShield /\ ~Rejected(tool_results)
  /\ pending_dmail = -1
  /\ result.tool_calls > 0
  /\ approval_alive' = Finally(approval_alive)
  /\ step_no' = step_no + 1
  /\ IF ExceedsMaxSteps(step_no')
     THEN /\ outcome' = "MaxStepsReached"
          /\ raised' = MaxStepsReached
          /\ pc' = "idle"
          /\ UNCHANGED <<result, tool_results>>
     ELSE /\ pc' = "loop_top"
          /\ result' = NoResult /\ tool_results' = <<>>
          /\ UNCHANGED <<outcome, raised>>
  /\ UNCHANGED <<config, toolset, shell, meta, ctx_call, context, denwa, run_no, retry, grow, orphans, wire,
                 bttf, compacted>>

(* ------------------- except BackToTheFuture (138-142) ----------------- *)
\* revert_to(e.checkpoint_id); InvalidCheckpoint, raised inside the handler,
\* is caught by no except clause.
BttfRevert ==
  /\ pc = "bttf_revert"
  /\ IF RevertFails(context, bttf.checkpoint_id)
     THEN /\ PropagateLoop(InvalidCheckpoint)
          /\ UNCHANGED context
     ELSE /\ context' = RevertTo(context, bttf.checkpoint_id)
          /\ pc' = "bttf_checkpoint"
          /\ UNCHANGED <<approval_alive, wire, outcome, raised>>
  /\ UNCHANGED <<config, toolset, shell, meta, ctx_call, denwa, run_no, step_no, retry,
                 result, tool_results, grow, orphans, bttf, compacted>>

BttfCheckpoint ==
  /\ pc = "bttf_checkpoint"
  /\ context' = Checkpoint(context, WithMarker)
  /\ pc' = "bttf_append"
  /\ UNCHANGED <<config, toolset, shell, meta, ctx_call, denwa, run_no, step_no, retry, result, tool_results,
                 grow, orphans, approval_alive, wire, outcome, raised, bttf,
                 compacted>>

\* append_message(e.messages); continue (the finally clause runs).
BttfAppend ==
  /\ pc = "bttf_append"
  /\ context' = AppendMessage(context, <<bttf.message>>)
  /\ approval_alive' = Finally(approval_alive)
  /\ pc' = "loop_top"
  /\ UNCHANGED <<config, toolset, shell, meta, ctx_call, denwa, run_no, step_no, retry, result, tool_results,
                 grow, orphans, wire, outcome, raised, bttf, compacted>>

(* -------------------------- compact_context --------------------------- *)
\* What SimpleCompaction.compact returns: a summary, followed by the last
\* message of the history when the procedure preserves it.
CompactMessages(ctx, run, step, keep) ==
  <<SummaryMessage(run, step)>>
  \o (IF keep /\ ctx.history # <<>>
      THEN <<ctx.history[Len(ctx.history)]>> ELSE <<>>)

CompactOk(keep) ==
  /\ pc = "compact_call"
  /\ calls' = calls + 1
  /\ last_err' = NoError
  /\ compacted' = CompactMessages(context, run_no, step_no, keep)
  /\ pc' = "compact_revert"
  /\ UNCHANGED <<config, toolset, shell, meta, ctx_call, context, denwa, run_no, step_no, attempt, result,
                 tool_results, grow, orphans, approval_alive, wire, outcome,
                 raised, bttf>>

CompactFail(e) ==
  /\ pc = "compact_call"
  /\ calls' = calls + 1
  /\ last_err' = e
  /\ IF RetryDecision(e, attempt) = "retry"
     THEN /\ attempt' = attempt + 1
          /\ UNCHANGED <<pc, wire, approval_alive, outcome, raised>>
     ELSE /\ AbortLoop(Reraise(e))
          /\ UNCHANGED attempt
  /\ UNCHANGED <<config, toolset, shell, meta, ctx_call, context, denwa, run_no, step_no, result,
                 tool_results, grow, orphans, bttf, compacted>>

\* revert_to(0), after the retry wrapper has returned; InvalidCheckpoint is
\* named by no except clause of the loop.
CompactRevert ==
  /\ pc = "compact_revert"
  /\ IF RevertFails(context, 0)
     THEN /\ PropagateLoop(InvalidCheckpoint)
          /\ UNCHANGED context
     ELSE /\ context' = RevertTo(context, 0)
          /\ pc' = "compact_checkpoint"
          /\ UNCHANGED <<approval_alive, wire, outcome, raised>>
  /\ UNCHANGED <<config, toolset, shell, meta, ctx_call, denwa, run_no, step_no, retry,
                 result, tool_results, grow, orphans, bttf, compacted>>

CompactCheckpoint ==
  /\ pc = "compact_checkpoint"
  /\ context' = Checkpoint(context, WithMarker)
  /\ pc' = "compact_append"
  /\ UNCHANGED <<config, toolset, shell, meta, ctx_call, denwa, run_no, step_no, retry, result, tool_results,
                 grow, orphans, approval_alive, wire, outcome, raised, bttf,
                 compacted>>

\* append_message(compacted_messages); back in the loop, CompactionEnd.
CompactAppend ==
  /\ pc = "compact_append"
  /\ context' = AppendMessage(context, compacted)
  /\ compacted' = <<>>
  /\ wire' = WireSend(<<CompactionEnd>>)
  /\ pc' = "checkpoint"
  /\ UNCHANGED <<config, toolset, shell, meta, ctx_call, denwa, run_no, step_no, retry, result, tool_results,
                 grow, orphans, approval_alive, outcome, raised, bttf>>

(* --------------------------- cancellation ----------------------------- *)
\* Where the task of run() is suspended on a provider call, a retry sleep,
\* the tool results or the shield's outer future.
CancelPoints == {"compact_call", "provider", "tools", "shield"}

\* The caller cancels the task of run(): CancelledError is raised at the
\* await it is suspended on.  A shielded task that has not finished goes on
\* on its own.
Cancel ==
  /\ pc \in CancelPoints
  /\ AbortLoop(CancelledError)
  /\ orphans' = IF pc = "shield" /\ grow # <<>>
                THEN Append(orphans, grow) ELSE orphans
  /\ grow' = <<>>
  /\ sent_now' = FALSE
  /\ result' = NoResult /\ tool_results' = <<>>
  /\ attempt' = 0 /\ calls' = 0 /\ last_err' = NoError
  /\ UNCHANGED <<config, toolset, shell, meta, ctx_call, context, pending_dmail, denwa_n, turns, run_no,
                 step_no, bttf, compacted>>

(* ---------------------- Context called directly ---------------------- *)
\* The record of a direct call: the operation, its argument, the error it
\* raised, the history length its target checkpoint had captured, and the
\* calls, checkpoint() calls and successful reverts made so far.
Called(op, c, marker, error, len) ==
  [op |-> op, c |-> c, marker |-> marker, error |-> error,
   captured_len |-> len,
   n |-> ctx_call.n + 1,
   checkpoints |-> ctx_call.checkpoints + (IF op = "checkpoint" THEN 1 ELSE 0),
   reverts |-> ctx_call.reverts
               + (IF op = "revert_to" /\ error = "none" THEN 1 ELSE 0)]
CanCall == pc = "idle" /\ ctx_call.n < limits.ops

\* checkpoint(marker); the record keeps the id the new checkpoint got.
CallCheckpoint(marker) ==
  /\ CanCall
  /\ context' = Checkpoint(context, marker)
  /\ ctx_call' = Called("checkpoint", NCheckpoints(context), marker, "none", 0)
  /\ UNCHANGED <<config, toolset, shell, meta, denwa, pc, run_no, step_no, retry, result,
                 tool_results, grow, orphans, approval_alive, wire, outcome,
                 raised, bttf, compacted>>

CallAppendMessage ==
  /\ CanCall
  /\ context' = AppendMessage(context, <<UserMessage(ctx_call.n + 1)>>)
  /\ ctx_call' = Called("append_message", 0, FALSE, "none", 0)
  /\ UNCHANGED <<config, toolset, shell, meta, denwa, pc, run_no, step_no, retry, result,
                 tool_results, grow, orphans, approval_alive, wire, outcome,
                 raised, bttf, compacted>>

CallUpdateTokenCount(n) ==
  /\ CanCall
  /\ n + RESERVED_TOKENS <= limits.max_context_size
  /\ context' = UpdateTokenCount(context, n)
  /\ ctx_call' = Called("update_token_count", n, FALSE, "none", 0)
  /\ UNCHANGED <<config, toolset, shell, meta, denwa, pc, run_no, step_no, retry, result,
                 tool_results, grow, orphans, approval_alive, wire, outcome,
                 raised, bttf, compacted>>

\* revert_to(c): InvalidCheckpoint, or the revert.
CallRevertTo(c) ==
  /\ CanCall
  /\ IF RevertFails(context, c)
     THEN /\ context' = context
          /\ ctx_call' = Called("revert_to", c, FALSE, "InvalidCheckpoint", 0)
     ELSE /\ context' = RevertTo(context, c)
          /\ ctx_call' = Called("revert_to", c, FALSE, "none",
                                context.checkpoints[c + 1].len)
  /\ UNCHANGED <<config, toolset, shell, meta, denwa, pc, run_no, step_no, retry, result,
                 tool_results, grow, orphans, approval_alive, wire, outcome,
                 raised, bttf, compacted>>

(* ------------------------------ ShellApp ------------------------------ *)
\* What run_soul raises for the way run() ended: the cancellation of the
\* soul's task surfaces as RunCancelled, everything else as it is.
run_soul(o) == IF o = "Cancelled" THEN "RunCancelled" ELSE o
\* A handler list that names no exception at all.
HandledNever == {}
\* The exceptions _run_soul_command names in its except clauses
\* (ui/shell/__init__.py:172-190); ChatProviderError stands for its subclasses.
Handled == {"LLMNotSet", "ChatProviderError", "MaxStepsReached", "RunCancelled"}
ShellFrame ==
  UNCHANGED <<config, toolset, meta, ctx_call, context, denwa, pc, run_no, step_no,
              retry, result, tool_results, grow, orphans, approval_alive,
              wire, outcome, raised, bttf, compacted>>
\* The prompt loop reads a command; _run_soul_command installs its SIGINT
\* handler and awaits run_soul (ui/shell/__init__.py:74-75, 152-170).
ShellCommand ==
  /\ limits.shell /\ shell.pc = "prompt"
  /\ pc = "idle" /\ run_no < limits.runs
  /\ shell' = [pc |-> "run_soul", handlers |-> shell.handlers + 1,
               removed |-> 0, ret |-> "none", run |-> run_no]
  /\ ShellFrame
\* run_soul returns or raises: return True, or the except clause that
\* matches, then the finally clause, then return False or the re-raise
\* (ui/shell/__init__.py:171-197).  A re-raise leaves the prompt loop.
ShellReturn ==
  /\ limits.shell /\ shell.pc = "run_soul"
  /\ pc = "idle" /\ run_no > shell.run
  /\ LET exc == run_soul(outcome)
         ret == IF exc = "finished" THEN "True"
                ELSE IF exc \in Handled THEN "False"
                ELSE "raised"
     IN shell' = [shell EXCEPT
                    !.pc = IF ret = "raised" THEN "exited" ELSE "prompt",
                    !.handlers = @ - 1,
                    !.removed = @ + 1,
                    !.ret = ret]
  /\ ShellFrame

(* --------------------- direct MetadataStore calls --------------------- *)
CanCallStore == pc = "idle" /\ meta_call.n < limits.store_ops
StoreFrame ==
  UNCHANGED <<config, toolset, shell, ctx_call, context, denwa, pc, run_no, step_no, retry,
              result, tool_results, grow, orphans, approval_alive, wire,
              outcome, raised, bttf, compacted>>
\* await store.tag(task_id, message_ids, policy, ttl_steps, importance)
CallTag(task, ttl, importance) ==
  /\ CanCallStore
  /\ pins' = Tag(pins, task, <<>>, "pin_outcome", ttl, importance, "",
                 current_step)
  /\ meta_call' = MetaCalled("tag", "none", "none", current_step, <<>>)
  /\ UNCHANGED current_step
  /\ StoreFrame
\* await store.map_todo_task(todo_id, task_id)
CallMapTodoTask(todo, task) ==
  /\ CanCallStore
  /\ pins' = map_todo_task(pins, todo, task)
  /\ meta_call' = MetaCalled("map_todo_task", "none", "none", current_step, <<>>)
  /\ UNCHANGED current_step
  /\ StoreFrame
\* await store.record_artifact(task_id, kind)
CallRecordArtifact(task) ==
  /\ CanCallStore
  /\ pins' = record_artifact(pins, task, "diff")
  /\ meta_call' = MetaCalled("record_artifact", "none", "none", current_step,
                             <<>>)
  /\ UNCHANGED current_step
  /\ StoreFrame
\* await store.list_active_pins(current_step=s), or with no argument.
CallListActivePins(given, s) ==
  /\ CanCallStore
  /\ ~given => s = 0
  /\ LET step == IF given THEN s ELSE current_step
     IN meta_call' = MetaCalled("list_active_pins", "none", "none", step,
                                list_active_pins(pins, step))
  /\ UNCHANGED <<current_step, pins>>
  /\ StoreFrame
\* await store.list_todo_task_maps()
CallListTodoTaskMaps ==
  /\ CanCallStore
  /\ meta_call' = MetaCalled("list_todo_task_maps", "none", "none",
                             current_step, list_todo_task_maps(pins))
  /\ UNCHANGED <<current_step, pins>>
  /\ StoreFrame
\* store.increment_step()
CallIncrementStep ==
  /\ CanCallStore
  /\ current_step' = current_step + 1
  /\ meta_call' = MetaCalled("increment_step", "none", "none", current_step',
                             <<>>)
  /\ UNCHANGED pins
  /\ StoreFrame

(* --------------------------- CustomToolset ---------------------------- *)
\* The tool calls a toolset is given.
ToolCalls == 1..2
\* A reset that puts the default back.
ContextVarResetToDefault(token) == NoToolCall
\* ContextVar.reset(token): the variable gets back the value it had before
\* the set that made the token.
ContextVarReset(token) == token.old_value
HandleFrame ==
  UNCHANGED <<config, shell, meta, ctx_call, context, denwa, pc, run_no,
              step_no, retry, result, tool_results, grow, orphans,
              approval_alive, wire, outcome, raised, bttf, compacted>>
\* handle(tool_call) is entered, at top level or from within a dispatch in
\* progress: token = current_tool_call.set(tool_call), and
\* super().handle(tool_call) begins (toolset.py:33-35).
Handle(tool_call) ==
  /\ handled.n + Len(handling) < limits.handles
  /\ Len(handling) < MaxDepth
  /\ handling' = Append(handling, [tool_call |-> tool_call,
                                    token |-> [old_value |-> current_tool_call]])
  /\ current_tool_call' = tool_call
  /\ UNCHANGED handled
  /\ HandleFrame
\* super().handle of the innermost call returns or raises; finally:
\* current_tool_call.reset(token) (toolset.py:35-37).
HandleEnds(how) ==
  /\ handling # <<>>
  /\ current_tool_call' = ContextVarReset(handling[Len(handling)].token)
  /\ handled' = [n |-> handled.n + 1,
                  tool_call |-> handling[Len(handling)].tool_call,
                  how |-> how]
  /\ handling' = SubSeq(handling, 1, Len(handling) - 1)
  /\ HandleFrame

(* ------------------------------ system -------------------------------- *)
\* The checkpoint ids the SendDMail tool is called with; a run that may
\* iterate without bound aims at the first two checkpoints only, which keeps
\* its Context bounded.
DMailTargets == IF Counting THEN 0..(MaxRuns + MaxTurns) ELSE 0..1
\* The loop when nobody cancels the run.
NextQuiet ==
  \/ RunLLMNotSet
  \/ RunStart
  \/ RunCheckpoint
  \/ RunAppendUser
  \/ StepBegin
  \/ StepCheckpoint
  \/ \E res \in StepResults : ProviderOk(res)
  \/ \E e \in ProviderErrors : ProviderFail(e)
  \/ \E c \in DMailTargets : SendDMail(c)
  \/ \E rs \in [1..result.tool_calls -> ResultKinds] : ToolsDone(rs)
  \/ GrowStep
  \/ StepRejected
  \/ StepTimeTravel
  \/ StepFinished
  \/ StepContinue
  \/ BttfRevert
  \/ BttfCheckpoint
  \/ BttfAppend
  \/ \E keep \in BOOLEAN : CompactOk(keep)
  \/ \E e \in ProviderErrors : CompactFail(e)
  \/ CompactRevert
  \/ CompactCheckpoint
  \/ CompactAppend

Next ==
  \/ NextQuiet
  \/ \E i \in 1..MaxRuns : OrphanStep(i)
  \/ Cancel

\* With successive runs a step can meet a D-Mail that an earlier, cancelled
\* run left pending, and the assertions of kimisoul.py:202-205 can fail.
NextRuns == Next \/ StepAssertFails

\* Successive runs that nobody cancels, with the TagContext tool in use.
NextMeta ==
  \/ NextQuiet
  \/ \E has_context \in BOOLEAN : \E params \in TagParams :
       TagContext(has_context, params)

\* A caller that uses a Context directly.
NextContext ==
  \/ \E marker \in BOOLEAN : CallCheckpoint(marker)
  \/ CallAppendMessage
  \/ \E n \in TokenValues : CallUpdateTokenCount(n)
  \/ \E c \in (0 - 1)..MaxOps : CallRevertTo(c)

\* A caller that uses a MetadataStore directly.
NextStore ==
  \/ \E task \in Tasks : \E ttl \in TtlSteps :
       \E importance \in Importances : CallTag(task, ttl, importance)
  \/ \E task \in Tasks : CallMapTodoTask(1, task)
  \/ \E task \in Tasks : CallRecordArtifact(task)
  \/ \E given \in BOOLEAN : \E s \in QuerySteps :
       CallListActivePins(given, s)
  \/ CallListTodoTaskMaps
  \/ CallIncrementStep

\* A caller that gives a CustomToolset tool calls to handle.
NextToolset ==
  \/ \E tool_call \in ToolCalls : Handle(tool_call)
  \/ \E how \in {"returned", "raised"} : HandleEnds(how)

\* Successive commands given to ShellApp, interrupts included.
NextShell == NextRuns \/ ShellCommand \/ ShellReturn

Spec == Init /\ [][Next]_vars
SpecRuns == InitRuns /\ [][NextRuns]_vars
SpecMeta == InitMeta /\ [][NextMeta]_vars
SpecContext == InitContext /\ [][NextContext]_vars
SpecTokens == InitTokens /\ [][NextQuiet]_vars
SpecStore == InitStore /\ [][NextStore]_vars
\* A run in which every provider call, compaction call and tool execution
\* returns and that nobody cancels: the coroutine of the loop always takes
\* its next step.
SpecLive == InitLive /\ [][NextQuiet]_vars /\ WF_vars(NextQuiet)
SpecShell == InitShell /\ [][NextShell]_vars
SpecToolset == InitToolset /\ [][NextToolset]_vars
SpecTag == InitTag /\ [][NextMeta]_vars

(* ============================== properties =========================== *)
LastOf(s) == s[Len(s)]
\* Retryable as the specification words it: a connection failure, a timeout,
\* or a status error with status 429, 500, 502 or 503.
SpecRetryable(e) ==
  \/ e.kind = "APIConnectionError"
  \/ e.kind = "APITimeoutError"
  \/ e.kind = "APIStatusError" /\ e.status_code \in {429, 500, 502, 503}
\* An attempt of the provider call in progress has just failed.
AttemptFailed ==
  /\ pc \in {"provider", "compact_call"}
  /\ calls' = calls + 1
  /\ last_err' # NoError
\* The positions of an iteration between its StepBegin and its end.
InIteration ==
  {"compact_call", "compact_revert", "compact_checkpoint", "compact_append",
   "checkpoint", "provider", "tools", "shield",
   "bttf_revert", "bttf_checkpoint", "bttf_append"}
\* Both messages were appended by the context growth of the same step.
GrownBySameStep(m1, m2) ==
  /\ m1.role \in {"assistant", "tool"} /\ m2.role \in {"assistant", "tool"}
  /\ m1.run = m2.run /\ m1.step = m2.step
\* CHECK_FINISH: the context has grown, no tool result is a rejection and no
\* time-travel signal is pending.
AtCheckFinish ==
  /\ pc = "shield" /\ grow = <<>>
  /\ \A k \in DOMAIN tool_results : tool_results[k] # "rejected"
  /\ pending_dmail = -1
\* The step changes the history or the checkpoints of the Context.
HistoryChanges ==
  \/ context'.history # context.history
  \/ context'.checkpoints # context.checkpoints
\* The step leaves CHECK_FINISH other than by a cancellation.
LeavesCheckFinish == AtCheckFinish /\ pc' # pc /\ outcome' # "Cancelled"

\* C1: when the loop is back at its top after a time-travel replay, the step
\* number is that of the interrupted step and the history is the history
\* captured at the target checkpoint followed only by the new checkpoint's
\* marker (when markers are on) and the advisory message.
C1_ReplayRestoresCheckpoint ==
  (pc = "loop_top" /\ bttf.some) =>
    /\ step_no = bttf.step
    /\ context.history =
         bttf.captured
         \o (IF checkpoint_with_user_message
             THEN <<MarkerMessage(bttf.checkpoint_id)>> ELSE <<>>)
         \o <<bttf.message>>

\* C2: when a run has observed its cancellation (it raised CancelledError and
\* is back with the caller), no context growth that had begun is still
\* incomplete.
C2_GrowthCompleteWhenCancelled ==
  (pc = "idle" /\ outcome = "Cancelled") => orphans = <<>>

\* C3: the messages that the context growth of one step appends are never
\* separated in the history by a message of another step or of another run.
C3_StepsNotInterleaved ==
  \A i \in DOMAIN context.history : \A k \in DOMAIN context.history :
    (i < k /\ GrownBySameStep(context.history[i], context.history[k])) =>
      \A j \in i..k :
        GrownBySameStep(context.history[i], context.history[j])

\* C4: at most one approval task is alive at any time, one is alive exactly
\* inside an iteration (from its StepBegin to its end), and none is alive
\* when run has returned or raised.
C4_OneApprovalTaskPerIteration ==
  /\ approval_alive \in {0, 1}
  /\ (approval_alive = 1) <=> (pc \in InIteration)
  /\ (pc = "idle") => (approval_alive = 0)
C4_Witness ==
  pc = "loop_top" /\ bttf.some /\ turns >= 1 /\ approval_alive = 0

\* C5 (amended): a run that has terminated ended in exactly one of these
\* ways: finished (the last turn issued no tool call, or a tool result of it
\* was a rejection), cancelled, MaxStepsReached, a provider error, LLMNotSet
\* (no LLM configured), or an AssertionError (the step consumed a time-travel
\* signal whose target is no checkpoint of the Context).
C5_RunOutcomes ==
  /\ outcome \in {"none", "running", "finished", "Cancelled",
                  "MaxStepsReached", "ChatProviderError", "LLMNotSet",
                  "AssertionError"}
  /\ (pc # "idle") => (outcome = "running")
  /\ (pc = "idle" /\ run_no > 0) => (outcome \notin {"none", "running"})
  /\ (outcome = "finished") =>
       /\ raised = NoError
       /\ \/ result.tool_calls = 0
          \/ \E k \in DOMAIN tool_results : tool_results[k] = "rejected"
  /\ (outcome = "Cancelled") => (raised = CancelledError)
  /\ (outcome = "MaxStepsReached") =>
       (raised = MaxStepsReached /\ step_no > max_steps_per_run)
  /\ (outcome = "ChatProviderError") => (raised \in ProviderErrors)
  /\ (outcome = "LLMNotSet") => (raised = LLMNotSet /\ ~llm_set)
  /\ (outcome = "AssertionError") => (raised = AssertionError)
\* C5 as stated: a terminated run completed with no further tool call, was
\* cancelled, reached the step limit or raised a provider error.
C5_FourOutcomes ==
  (pc = "idle" /\ run_no > 0) =>
    \/ outcome = "finished" /\ result.tool_calls = 0
    \/ outcome = "Cancelled"
    \/ outcome = "MaxStepsReached"
    \/ outcome = "ChatProviderError"
C5_Witness ==
  pc = "idle" /\ outcome = "finished" /\ result.tool_calls > 0

\* C6: a provider call of a step that has failed k times, each time with a
\* retryable error, is at attempt k + 1 with k < max_retries_per_step; a
\* further retryable failure that leaves the count below the bound is
\* absorbed (another attempt follows, nothing is raised), and a success
\* completes the call at its (k+1)-th invocation with a result and no error.
C6_RetryableFailuresAbsorbed ==
  [][ (pc = "provider" /\ calls' = calls + 1) =>
        /\ calls < max_retries_per_step
        /\ attempt = calls + 1
        /\ (calls > 0) => SpecRetryable(last_err)
        /\ IF last_err' = NoError
           THEN /\ pc' = "tools"
                /\ result' \in StepResults
                /\ outcome' = "running" /\ raised' = NoError
           ELSE (SpecRetryable(last_err') /\ calls' < max_retries_per_step) =>
                  /\ pc' = "provider"
                  /\ attempt' = attempt + 1
                  /\ outcome' = "running" /\ raised' = NoError ]_vars
C6_Witness ==
  /\ pc = "tools" /\ outcome = "running"
  /\ calls = max_retries_per_step
  /\ attempt = max_retries_per_step

\* C7: a failed attempt is followed by another attempt only if its error is
\* retryable (connection failure, timeout, status 429/500/502/503), and
\* always if it is retryable and attempts remain; any other error is raised
\* by the very attempt that met it, unchanged and with no further attempt.
C7_RetryClassification ==
  [][ AttemptFailed =>
        /\ (pc' = pc) => SpecRetryable(last_err')
        /\ (SpecRetryable(last_err') /\ calls' < max_retries_per_step) =>
             (pc' = pc /\ attempt' = attempt + 1)
        /\ ~SpecRetryable(last_err') =>
             /\ pc' = "idle"
             /\ raised' = last_err'
             /\ attempt' = attempt ]_vars
C7_Witness ==
  /\ pc = "idle" /\ calls = 1 /\ attempt = 1
  /\ raised = [kind |-> "APIStatusError", status_code |-> 401]

\* C8: a provider call (of a step or of compaction) is never attempted more
\* than max_retries_per_step times; a retryable failure of attempt number
\* max_retries_per_step ends the call, and a retryable error leaves the call
\* only then, as the error of that last attempt itself.
C8_AttemptsBounded ==
  [][ /\ calls' <= max_retries_per_step
      /\ attempt' <= max_retries_per_step
      /\ (AttemptFailed /\ SpecRetryable(last_err')) =>
           /\ (calls' = max_retries_per_step) => (pc' = "idle")
           /\ (pc' = "idle") =>
                /\ calls' = max_retries_per_step
                /\ raised' = last_err'
                /\ outcome' = "ChatProviderError" ]_vars
C8_Witness ==
  /\ pc = "idle" /\ calls = max_retries_per_step
  /\ raised = last_err
  /\ raised = [kind |-> "APIStatusError", status_code |-> 503]

\* C9: a run that ends during a provider call, during compaction's provider
\* call or while tool results are awaited ends with StepInterrupted as its
\* last event, its approval task cancelled, the Context untouched, and the
\* cancellation or the provider error of the failed attempt itself raised; a
\* failed attempt is either retried or ends the run this way; and once run
\* has ended nothing happens on the wire until a new run starts.
C9_AbortOnErrorOrCancellation ==
  [][ /\ (pc \in {"provider", "tools", "compact_call"} /\ pc' = "idle") =>
           /\ wire' = Append(wire, StepInterrupted)
           /\ approval_alive = 1 /\ approval_alive' = 0
           /\ context' = context
           /\ \/ raised' = CancelledError /\ outcome' = "Cancelled"
              \/ /\ AttemptFailed
                 /\ raised' = last_err'
                 /\ raised' \in ProviderErrors
                 /\ outcome' = "ChatProviderError"
      /\ AttemptFailed =>
           \/ pc' = pc /\ attempt' = attempt + 1 /\ wire' = wire
           \/ pc' = "idle" /\ raised' = last_err'
      /\ (pc = "idle") =>
           /\ pc' \in {"idle", "run_checkpoint"}
           /\ (wire' # wire) => (wire' = <<>>) ]_vars
C9_Witness ==
  /\ pc = "idle" /\ outcome = "ChatProviderError"
  /\ raised = [kind |-> "ChatProviderError", status_code |-> 0]
  /\ wire # <<>> /\ LastOf(wire) = StepInterrupted
  /\ approval_alive = 0

\* C10 (amended): at CHECK_FINISH, with no tool call run returns finished and
\* begins no further step; with a tool call the step number is incremented,
\* and the loop continues unless the incremented step number exceeds
\* max_steps_per_run, in which case run raises MaxStepsReached.
C10_CheckFinish ==
  [][ LeavesCheckFinish =>
        IF result.tool_calls = 0
        THEN /\ pc' = "idle" /\ outcome' = "finished"
             /\ step_no' = step_no /\ wire' = wire
        ELSE /\ step_no' = step_no + 1
             /\ IF step_no + 1 > max_steps_per_run
                THEN pc' = "idle" /\ outcome' = "MaxStepsReached"
                ELSE pc' = "loop_top" /\ outcome' = "running" ]_vars
\* C10 as stated: with a tool call the step number is incremented and the
\* loop continues.
C10_AlwaysContinues ==
  [][ LeavesCheckFinish =>
        IF result.tool_calls = 0
        THEN /\ pc' = "idle" /\ outcome' = "finished"
             /\ step_no' = step_no /\ wire' = wire
        ELSE /\ step_no' = step_no + 1
             /\ pc' = "loop_top" /\ outcome' = "running" ]_vars
C10_Witness ==
  /\ pc = "idle" /\ outcome = "MaxStepsReached"
  /\ step_no = max_steps_per_run + 1
  /\ result.tool_calls >= 1

\* C11: when some tool result of a step is a user rejection, then once the
\* step's context growth is done the pending time-travel signal is cleared,
\* the Context is neither reverted nor otherwise touched, and the run ends as
\* finished: no error is raised, no further step begins and no event is sent,
\* although the model's turn issued tool calls.
C11_RejectionEndsRun ==
  [][ (AfterShield /\ Rejected(tool_results) /\ pc' # pc
       /\ outcome' # "Cancelled") =>
        /\ result.tool_calls >= 1
        /\ pending_dmail' = -1
        /\ context' = context
        /\ pc' = "idle" /\ outcome' = "finished" /\ raised' = NoError
        /\ turns' = turns /\ step_no' = step_no /\ wire' = wire
        /\ approval_alive' = 0 ]_vars
C11_Witness ==
  /\ pc = "idle" /\ outcome = "finished" /\ raised = NoError
  /\ result.tool_calls = 2
  /\ tool_results = <<"ok", "rejected">>
  /\ pending_dmail = -1
  /\ context.history[Len(context.history)].role = "tool"

\* C12: with max_steps_per_run = N, every step a run begins is numbered
\* between 1 and N; MaxStepsReached is raised exactly when step N completes
\* without finishing the run (its growth is done, no tool result is a
\* rejection, no time-travel signal is pending and the turn issued tool
\* calls); and the step that raises it cancels the approval task of the
\* iteration and sends no event, so no StepInterrupted precedes it.
C12_MaxSteps ==
  [][ /\ (pc = "loop_top" /\ pc' # pc) =>
           /\ step_no >= 1 /\ step_no <= max_steps_per_run
           /\ wire' # <<>>
           /\ StepBeginEvent(step_no) \in {wire'[i] : i \in DOMAIN wire'}
      /\ (outcome' = "MaxStepsReached" /\ outcome # "MaxStepsReached") <=>
           (LeavesCheckFinish /\ result.tool_calls >= 1
            /\ step_no = max_steps_per_run)
      /\ (outcome' = "MaxStepsReached" /\ outcome # "MaxStepsReached") =>
           /\ raised' = MaxStepsReached
           /\ approval_alive = 1 /\ approval_alive' = 0
           /\ wire' = wire
           /\ \A i \in DOMAIN wire : wire[i] # StepInterrupted
           /\ pc' = "idle" ]_vars
C12_Witness ==
  /\ pc = "idle" /\ outcome = "MaxStepsReached" /\ raised = MaxStepsReached
  /\ approval_alive = 0
  /\ LastOf(wire) = StepBeginEvent(max_steps_per_run)

\* C13: every loop iteration (a first step, a later step, a time-travel
\* replay) begins by testing token_count + 50000 >= max_context_size:
\* compaction starts iff the test holds, and otherwise the iteration goes to
\* its checkpoint.  A started compaction ends the run or goes through
\* revert, checkpoint and append to CompactionEnd before the iteration's
\* checkpoint is taken, and the provider is called only after that
\* checkpoint.
C13_CompactionBeforeStep ==
  [][ /\ (pc = "loop_top" /\ pc' # pc) =>
           /\ (context.token_count + 50000 >= max_context_size)
                <=> (pc' = "compact_call" /\ LastOf(wire') = CompactionBegin)
           /\ (context.token_count + 50000 < max_context_size)
                <=> (pc' = "checkpoint" /\ LastOf(wire') = StepBeginEvent(step_no))
      /\ (pc = "compact_call" /\ pc' # pc) => pc' \in {"compact_revert", "idle"}
      /\ (pc = "compact_revert" /\ pc' # pc) => pc' = "compact_checkpoint"
      /\ (pc = "compact_checkpoint" /\ pc' # pc) => pc' = "compact_append"
      /\ (pc = "compact_append" /\ pc' # pc) =>
           pc' = "checkpoint" /\ wire' = Append(wire, CompactionEnd)
      /\ (pc' = "checkpoint" /\ pc # pc') =>
           pc \in {"loop_top", "compact_append"}
      /\ (pc' = "provider" /\ pc # pc') =>
           /\ pc = "checkpoint"
           /\ NCheckpoints(context') = NCheckpoints(context) + 1
           /\ LastOf(wire) \in {StepBeginEvent(step_no), CompactionEnd} ]_vars
C13_Witness ==
  /\ pc = "provider"
  /\ step_no = 2
  /\ wire = <<StepBeginEvent(1), StepBeginEvent(2), CompactionBegin,
              CompactionEnd>>
  /\ NCheckpoints(context) = 2

\* C14: compact_context discards every checkpoint and restarts the sequence
\* at 0.  Its revert leaves exactly the state captured at the old checkpoint
\* 0 and no checkpoint; from there until it completes, history and
\* checkpoints change only by its checkpoint (the optional marker appended,
\* checkpoint 0 created) and by its append (exactly the replacement
\* messages, in order): so on completion one checkpoint exists and the
\* history is the captured state, the marker, then the replacement.
C14_CompactionRestartsCheckpoints ==
  [][ /\ (pc = "compact_revert" /\ pc' # pc) =>
           /\ pc' = "compact_checkpoint"
           /\ context'.history = CapturedAt(context, 0)
           /\ NCheckpoints(context') = 0
      /\ (pc = "compact_checkpoint" /\ HistoryChanges) =>
           /\ pc' = "compact_append"
           /\ NCheckpoints(context) = 0 /\ NCheckpoints(context') = 1
           /\ context'.history =
                context.history
                \o (IF checkpoint_with_user_message
                    THEN <<MarkerMessage(0)>> ELSE <<>>)
      /\ (pc = "compact_append" /\ HistoryChanges) =>
           /\ pc' = "checkpoint"
           /\ NCheckpoints(context) = 1 /\ NCheckpoints(context') = 1
           /\ compacted # <<>>
           /\ context'.history = context.history \o compacted ]_vars

\* The messages pinned by the tag records that are active at step.
PinnedMessages(log, step) ==
  LET active == ActivePins(log, step)
  IN UNION {{active[i].message_ids[j] : j \in DOMAIN active[i].message_ids} :
            i \in DOMAIN active}
MessagesOf(h) == {h[i] : i \in DOMAIN h}

\* C15: the pins active at the current step protect their messages from
\* compaction: a message of the history that an active pin references is
\* still in the history after compaction, that is, it belongs to the state
\* captured at checkpoint 0 or to the replacement the compaction procedure
\* returns.
C15_PinsSurviveCompaction ==
  [][ (pc = "compact_call" /\ pc' = "compact_revert") =>
        \A m \in PinnedMessages(pins, current_step)
                   \cap MessagesOf(context.history) :
          m \in MessagesOf(CapturedAt(context, 0)) \cup MessagesOf(compacted')
    ]_vars

\* C16: the Metadata Store's step counter starts at 0 and advances by exactly
\* one with each step the loop completes, and at no other moment (not for a
\* time-travel replay); hence a pin is no longer active once as many steps
\* as its ttl_steps have completed since it was tagged.
C16_StepCounterAdvances ==
  /\ current_step = 0
  /\ [][ /\ LeavesCheckFinish => current_step' = current_step + 1
         /\ ~LeavesCheckFinish => current_step' = current_step
         /\ LeavesCheckFinish =>
              \A i \in DOMAIN pins :
                (pins[i].ttl_steps = 1 /\ pins[i].created_at_step = current_step)
                  => pins[i] \notin
                       {ActivePins(pins, current_step')[j] :
                          j \in DOMAIN ActivePins(pins, current_step')} ]_vars

\* C17: on a fresh Context, as long as no revert has happened, n_checkpoints
\* equals the number k of checkpoint() calls made so far, whatever appends
\* and token-count updates came between them and with or without marker
\* message; the call that has just returned created checkpoint k - 1, so the
\* ids are 0, 1, ..., k - 1, and the checkpoints lie in creation order along
\* the history.
C17_CheckpointCount ==
  (limits.ops > 0 /\ ctx_call.reverts = 0) =>
    /\ NCheckpoints(context) = ctx_call.checkpoints
    /\ (ctx_call.op = "checkpoint") =>
         /\ ctx_call.c = ctx_call.checkpoints - 1
         /\ LastOf(context.checkpoints).len = Len(context.history)
         /\ ctx_call.marker =>
              LastOf(context.history) = MarkerMessage(ctx_call.checkpoints - 1)
    /\ \A i, j \in DOMAIN context.checkpoints :
         i <= j => context.checkpoints[i].len <= context.checkpoints[j].len
C17_Witness ==
  /\ ctx_call.reverts = 0 /\ ctx_call.checkpoints = 3
  /\ ctx_call.op = "checkpoint"
  /\ NCheckpoints(context) = 3
  /\ context.history = <<UserMessage(2), MarkerMessage(1), MarkerMessage(2)>>

\* A successful revert_to is immediately followed by a checkpoint().
RevertThenCheckpoint ==
  /\ ctx_call.op = "revert_to" /\ ctx_call.error = "none"
  /\ ctx_call'.op = "checkpoint"

\* C18 (amended): for every valid checkpoint id c, revert_to(c) immediately
\* followed by checkpoint() yields n_checkpoints = c + 1, and the history
\* length is the length captured at checkpoint c, plus one when the
\* checkpoint() call appends its marker message.
C18_RevertThenCheckpoint ==
  [][ RevertThenCheckpoint =>
        /\ NCheckpoints(context') = ctx_call.c + 1
        /\ Len(context'.history) =
             ctx_call.captured_len + (IF ctx_call'.marker THEN 1 ELSE 0) ]_vars
\* C18 as stated: the history length equals the length captured at c.
C18_LengthAsCaptured ==
  [][ RevertThenCheckpoint =>
        /\ NCheckpoints(context') = ctx_call.c + 1
        /\ Len(context'.history) = ctx_call.captured_len ]_vars
C18_Witness ==
  /\ ctx_call.op = "checkpoint" /\ ctx_call.marker
  /\ ctx_call.n = 4 /\ ctx_call.checkpoints = 3 /\ ctx_call.reverts = 1
  /\ NCheckpoints(context) = 1

\* The step is a successful revert_to(c).
Reverts ==
  /\ ctx_call'.op = "revert_to" /\ ctx_call'.error = "none"
  /\ ctx_call'.n = ctx_call.n + 1

\* C19 (amended): n_checkpoints grows by exactly one with every checkpoint()
\* and decreases only by revert_to; for every valid c, immediately after
\* revert_to(c) the history is exactly the state captured at checkpoint c,
\* checkpoint c and every checkpoint after it are discarded while the
\* earlier ones are kept as they were, n_checkpoints equals c, and
\* token_count equals the value recorded at checkpoint c.
C19_CheckpointMonotonic ==
  [][ /\ (ctx_call'.op = "checkpoint" /\ ctx_call'.n = ctx_call.n + 1) =>
           NCheckpoints(context') = NCheckpoints(context) + 1
      /\ (NCheckpoints(context') < NCheckpoints(context)) => Reverts
      /\ Reverts =>
           /\ ValidCheckpoint(context, ctx_call'.c)
           /\ context'.history
                = SubSeq(context.history, 1,
                         context.checkpoints[ctx_call'.c + 1].len)
           /\ context'.checkpoints
                = SubSeq(context.checkpoints, 1, ctx_call'.c)
           /\ NCheckpoints(context') = ctx_call'.c
           /\ context'.token_count
                = context.checkpoints[ctx_call'.c + 1].tokens ]_vars
\* C19 as stated: after revert_to(c), n_checkpoints equals c + 1 and
\* checkpoint c itself is kept.
C19_KeepsCheckpoint ==
  [][ /\ (ctx_call'.op = "checkpoint" /\ ctx_call'.n = ctx_call.n + 1) =>
           NCheckpoints(context') = NCheckpoints(context) + 1
      /\ (NCheckpoints(context') < NCheckpoints(context)) => Reverts
      /\ Reverts =>
           /\ ValidCheckpoint(context, ctx_call'.c)
           /\ context'.history
                = SubSeq(context.history, 1,
                         context.checkpoints[ctx_call'.c + 1].len)
           /\ context'.checkpoints
                = SubSeq(context.checkpoints, 1, ctx_call'.c + 1)
           /\ NCheckpoints(context') = ctx_call'.c + 1
           /\ context'.token_count
                = context.checkpoints[ctx_call'.c + 1].tokens ]_vars
C19_Witness ==
  /\ ctx_call.op = "revert_to" /\ ctx_call.error = "none"
  /\ ctx_call.c = 1 /\ ctx_call.n = 4
  /\ NCheckpoints(context) = 1
  /\ context.token_count = max_context_size - RESERVED_TOKENS

\* C20: revert_to(c) fails with InvalidCheckpoint, leaving the Context as it
\* was, for every c < 0 and every c >= n_checkpoints (so for every c when no
\* checkpoint exists), and succeeds for every other c.  The step loop calls
\* revert_to outside its retry wrappers: where it reverts, a failure ends the
\* run at once with InvalidCheckpoint raised, no event sent and the Context
\* as it was, a success goes on to the checkpoint, and no attempt is counted.
C20_InvalidCheckpoint ==
  [][ /\ (ctx_call'.op = "revert_to" /\ ctx_call'.n = ctx_call.n + 1) =>
           /\ (ctx_call'.c < 0 \/ ctx_call'.c >= NCheckpoints(context))
                <=> (ctx_call'.error = "InvalidCheckpoint")
           /\ (0 <= ctx_call'.c /\ ctx_call'.c < NCheckpoints(context))
                <=> (ctx_call'.error = "none")
           /\ (ctx_call'.error = "InvalidCheckpoint") => context' = context
           /\ (ctx_call'.error = "none") =>
                NCheckpoints(context') = ctx_call'.c
           /\ (NCheckpoints(context) = 0) =>
                ctx_call'.error = "InvalidCheckpoint"
      /\ (pc = "bttf_revert" /\ pc' # pc) =>
           IF bttf.checkpoint_id < 0
              \/ bttf.checkpoint_id >= NCheckpoints(context)
           THEN /\ pc' = "idle" /\ raised' = InvalidCheckpoint
                /\ context' = context /\ wire' = wire
           ELSE pc' = "bttf_checkpoint"
      /\ (pc = "compact_revert" /\ pc' # pc) =>
           IF NCheckpoints(context) = 0
           THEN /\ pc' = "idle" /\ raised' = InvalidCheckpoint
                /\ context' = context /\ wire' = wire
           ELSE pc' = "compact_checkpoint"
      /\ (pc \in {"bttf_revert", "compact_revert"}) => UNCHANGED retry ]_vars
C20_Witness ==
  /\ ctx_call.op = "revert_to" /\ ctx_call.error = "InvalidCheckpoint"
  /\ ctx_call.c = 2 /\ NCheckpoints(context) = 2
  /\ ctx_call.n = 3

\* C21: whenever the loop consumes a pending time-travel signal (the step has
\* grown the context, no tool result is a rejection and the signal is
\* fetched), its target c satisfies 0 <= c < n_checkpoints of the Context at
\* that moment: neither assertion of _step fails, BackToTheFuture is raised,
\* and the revert_to(c) of the handler does not raise InvalidCheckpoint.
C21_SignalTargetValid ==
  [][ /\ (AfterShield /\ ~Rejected(tool_results)
          /\ pending_dmail # -1 /\ pending_dmail' = -1) =>
           /\ 0 <= pending_dmail /\ pending_dmail < NCheckpoints(context)
           /\ raised' # AssertionError
           /\ pc' = "bttf_revert"
      /\ (pc = "bttf_revert" /\ pc' # pc) =>
           /\ raised' # InvalidCheckpoint
           /\ pc' = "bttf_checkpoint" ]_vars

\* C22: BackToTheFuture never leaves the loop.  It is raised only by a step
\* that has grown the context, and raising it takes the run into the handler
\* with the run still running; the handler goes through revert, checkpoint
\* and append back to the top of the loop; compact_context never raises it;
\* and what a run raises to its caller is never BackToTheFuture.
C22_TimeTravelStaysInside ==
  [][ /\ raised'.kind # "BackToTheFuture"
      /\ outcome' # "BackToTheFuture"
      /\ (bttf'.some /\ bttf' # bttf) =>
           /\ AfterShield
           /\ pc' = "bttf_revert"
           /\ outcome' = "running" /\ raised' = NoError
      /\ (pc \in {"bttf_revert", "bttf_checkpoint", "bttf_append"}
          /\ pc' # pc) =>
           /\ pc' \in {"bttf_checkpoint", "bttf_append", "loop_top"}
           /\ outcome' = "running" /\ raised' = NoError
      /\ (pc \in {"compact_call", "compact_revert", "compact_checkpoint",
                  "compact_append"}) =>
           /\ bttf' = bttf
           /\ pc' \notin {"bttf_revert", "bttf_checkpoint", "bttf_append"}
    ]_vars
C22_Witness ==
  /\ pc = "idle" /\ outcome = "finished" /\ raised = NoError
  /\ \E i \in DOMAIN context.history : context.history[i].role = "dmail"

\* C23: of two messages that the context growth of one step appended, the
\* earlier one is the model's message or the result of a tool call issued
\* earlier, the later one is a tool result, and no message that the growth
\* of another step appended stands between them.
C23_GrowthOrder ==
  \A i \in DOMAIN context.history : \A k \in DOMAIN context.history :
    (i < k /\ GrownBySameStep(context.history[i], context.history[k])) =>
      /\ context.history[k].role = "tool"
      /\ \/ context.history[i].role = "assistant"
         \/ /\ context.history[i].role = "tool"
            /\ context.history[i].k < context.history[k].k
      /\ \A j \in i..k :
           context.history[j].role \in {"assistant", "tool"} =>
             GrownBySameStep(context.history[i], context.history[j])

\* The step is the caller's cancellation of a step that has not reached its
\* context growth: it waits for the provider, for a retry or for the tool
\* results.
CancelledBeforeGrowth ==
  pc \in {"provider", "tools"} /\ pc' = "idle" /\ outcome' = "Cancelled"

\* C24 (amended): between its checkpoint and its context growth a step
\* performs no Context operation of its own other than the token-count
\* update to usage.input when the provider response reports usage, and its
\* cancellation performs none.  So a step cancelled before its growth has
\* itself left history and checkpoints exactly as they were when its
\* checkpoint was taken, and in the first run on a fresh Context the history
\* is the one the step's checkpoint captured and the token count is the one
\* recorded there or, when usage was reported, usage.input.
C24_CancelledStepFrame ==
  [][ /\ (pc \in {"provider", "tools"} /\ orphans' = orphans) =>
           /\ context'.history = context.history
           /\ context'.checkpoints = context.checkpoints
           /\ (context'.token_count # context.token_count) =>
                /\ pc = "provider" /\ pc' = "tools"
                /\ result'.usage.some
                /\ context'.token_count = result'.usage.input
      /\ CancelledBeforeGrowth => context' = context
      /\ (CancelledBeforeGrowth /\ run_no = 1) =>
           /\ Len(context.history) = LastOf(context.checkpoints).len
           /\ IF pc = "tools" /\ result.usage.some
              THEN context.token_count = result.usage.input
              ELSE context.token_count = LastOf(context.checkpoints).tokens
    ]_vars
\* C24 as stated: the cancelled step leaves history, checkpoints and token
\* count as they were when its checkpoint was taken.
C24_TokenCountAsCheckpointed ==
  [][ (CancelledBeforeGrowth /\ run_no = 1) =>
        /\ context' = context
        /\ Len(context.history) = LastOf(context.checkpoints).len
        /\ context.token_count = LastOf(context.checkpoints).tokens ]_vars
C24_Witness ==
  /\ pc = "idle" /\ outcome = "Cancelled" /\ run_no = 1
  /\ context.token_count = max_context_size - RESERVED_TOKENS
  /\ LastOf(context.checkpoints).tokens = 0
  /\ Len(context.history) = LastOf(context.checkpoints).len
  /\ orphans = <<>>

\* The step changes token_count as one of the operations that set it: the
\* update to usage.input when the provider response arrives, the update to
\* usage.total of a context growth (of this step, or a detached one), or a
\* revert_to, which restores the count recorded at its checkpoint.
SetsTokenCount ==
  \/ /\ pc = "provider" /\ pc' = "tools" /\ result'.usage.some
     /\ context'.token_count = result'.usage.input
  \/ /\ pc = "shield" /\ grow # <<>> /\ grow' = Tail(grow)
     /\ Head(grow) = TokenOp(result.usage.total)
     /\ result.usage.total >= result.usage.input
     /\ context'.token_count = result.usage.total
  \/ \E i \in DOMAIN orphans :
       /\ Head(orphans[i]).op = "tokens"
       /\ context'.token_count = Head(orphans[i]).n
       /\ orphans' # orphans
  \/ /\ pc = "bttf_revert" /\ pc' = "bttf_checkpoint"
     /\ context'.token_count =
          context.checkpoints[bttf.checkpoint_id + 1].tokens
  \/ /\ pc = "compact_revert" /\ pc' = "compact_checkpoint"
     /\ context'.token_count = context.checkpoints[1].tokens
\* The step is a revert_to of the loop: time travel or compaction.
LoopReverts == pc \in {"bttf_revert", "compact_revert"} /\ pc' # pc

\* C25 (amended): token_count changes only by update_token_count, which sets
\* it to the figure the provider reported (usage.input when the response
\* arrives, usage.total of the same response during the context growth), and
\* by the revert_to of a time travel or a compaction, which resets it to the
\* count recorded at the target checkpoint.  The two updates of one step never
\* lower it (usage.input <= usage.total, and in the first run on a fresh
\* Context no growth lowers the count); the update of a later step lowers it
\* when the provider reports a smaller input than the total of the step
\* before.
C25_TokenCountUpdates ==
  [][ /\ (context'.token_count # context.token_count) => SetsTokenCount
      /\ (pc = "shield" /\ run_no = 1) =>
           context'.token_count >= context.token_count ]_vars
\* C25 as stated: token_count never decreases from one Context operation to
\* the next except by a revert or a compaction.
C25_TokenCountMonotonic ==
  [][ (context'.token_count < context.token_count) => LoopReverts ]_vars
\* The second step of a run has received a provider response that reports a
\* smaller input than the total the first step recorded.
C25_Witness ==
  /\ pc = "tools" /\ step_no = 2 /\ result.usage.some
  /\ context.token_count = result.usage.input
  /\ \E i \in DOMAIN context.checkpoints :
       context.checkpoints[i].tokens > context.token_count

RecordsOf(s) == {s[i] : i \in DOMAIN s}
\* The step is a call of op, TagContext or an operation of the MetadataStore.
Returned(op) == meta_call'.op = op /\ meta_call'.n = meta_call.n + 1
IsPrefix(s, t) == Len(s) <= Len(t) /\ SubSeq(t, 1, Len(s)) = s

\* C26: a pin tagged while the store's step counter is S is stamped
\* created_at_step = S, and list_active_pins(s) contains a pin with
\* ttl_steps = T iff s < S + T; with no argument list_active_pins uses the
\* store's own step counter.
C26_ActiveUntilTtlElapsed ==
  [][ /\ Returned("tag") =>
           /\ pins' = Append(pins, LastOf(pins'))
           /\ LastOf(pins').type = "tag"
           /\ LastOf(pins').created_at_step = current_step
      /\ Returned("list_active_pins") =>
           \A i \in DOMAIN pins :
             pins[i].type = "tag" =>
               (pins[i] \in RecordsOf(meta_call'.result)
                  <=> meta_call'.step
                        < pins[i].created_at_step + pins[i].ttl_steps)
      /\ CallListActivePins(FALSE, 0) => meta_call'.step = current_step
    ]_vars
\* A pin tagged at a step S >= 1 with a TTL above 1 is returned for the
\* last step at which it is active, S + T - 1.
C26_Witness ==
  /\ meta_call.op = "list_active_pins"
  /\ \E i \in DOMAIN pins :
       /\ pins[i].type = "tag"
       /\ pins[i].created_at_step >= 1
       /\ pins[i].ttl_steps > 1
       /\ meta_call.step = pins[i].created_at_step + pins[i].ttl_steps - 1
       /\ pins[i] \in RecordsOf(meta_call.result)

\* C27: list_active_pins returns the active tag records sorted by importance
\* descending, pins of equal importance in the order they were appended to
\* the log; the result is a permutation of exactly the active tag records.
C27_SortedByImportanceStable ==
  [][ Returned("list_active_pins") =>
        LET r == meta_call'.result
            s == meta_call'.step
        IN /\ \A i, j \in DOMAIN r :
                i < j => r[i].importance >= r[j].importance
           /\ \A v \in 1..5 :
                LET Of(p) == p.importance = v
                    ActiveOf(p) == /\ p.type = "tag" /\ p.importance = v
                                   /\ s < p.created_at_step + p.ttl_steps
                IN SelectSeq(r, Of) = SelectSeq(pins, ActiveOf)
           /\ \A i \in DOMAIN r : r[i].importance \in 1..5
    ]_vars
\* Three pins are returned: two of equal importance for different tasks, and
\* behind them the least important one, which was logged first.
C27_Witness ==
  /\ meta_call.op = "list_active_pins"
  /\ Len(meta_call.result) = 3
  /\ meta_call.result[1].importance = meta_call.result[2].importance
  /\ meta_call.result[1].task_id # meta_call.result[2].task_id
  /\ meta_call.result[3].importance < meta_call.result[2].importance
  /\ pins[1] = meta_call.result[3]

\* C28: list_active_pins returns only tag records and list_todo_task_maps
\* returns all and only the map records, in log order, whatever mix of tag,
\* map and artifact records the log holds; on an empty log both return the
\* empty sequence.
C28_ReadsFilterByType ==
  [][ /\ Returned("list_active_pins") =>
           /\ \A k \in DOMAIN meta_call'.result :
                meta_call'.result[k].type = "tag"
           /\ pins = <<>> => meta_call'.result = <<>>
      /\ Returned("list_todo_task_maps") =>
           LET IsMap(r) == r.type = "map"
           IN /\ meta_call'.result = SelectSeq(pins, IsMap)
              /\ pins = <<>> => meta_call'.result = <<>>
    ]_vars
\* list_todo_task_maps has returned the only map record of a log that also
\* holds a tag record and an artifact record.
C28_Witness ==
  /\ meta_call.op = "list_todo_task_maps"
  /\ Len(meta_call.result) = 1
  /\ {pins[i].type : i \in DOMAIN pins} = {"tag", "map", "artifact"}

\* C29: the metadata log is append-only: every operation leaves the earlier
\* log content as a prefix of the log, reads and increment_step leave the
\* log unchanged, expiry deletes nothing, and a later tag for the same task
\* does not supersede an earlier one: both are returned while active.
C29_AppendOnly ==
  [][ /\ IsPrefix(pins, pins')
      /\ (\/ Returned("list_active_pins") \/ Returned("list_todo_task_maps")
          \/ Returned("increment_step")) => pins' = pins
      /\ Returned("list_active_pins") =>
           \A i \in DOMAIN pins :
             (/\ pins[i].type = "tag"
              /\ meta_call'.step
                   < pins[i].created_at_step + pins[i].ttl_steps)
               => pins[i] \in RecordsOf(meta_call'.result)
    ]_vars
\* Two pins of the same task, tagged at different steps, are both returned.
C29_Witness ==
  /\ meta_call.op = "list_active_pins"
  /\ Len(meta_call.result) = 2
  /\ meta_call.result[1].task_id = meta_call.result[2].task_id
  /\ meta_call.result[1].created_at_step # meta_call.result[2].created_at_step

\* The assistant and tool messages of a history, in order.
AssistantAndTool(h) ==
  LET Is(m) == m.role \in {"assistant", "tool"} IN SelectSeq(h, Is)
\* s is made of the last n elements of t, or of all of them if t has fewer.
IsLastOf(s, n, t) ==
  /\ Len(s) = (IF Len(t) <= n THEN Len(t) ELSE n)
  /\ \A k \in DOMAIN s : s[k] = t[Len(t) - Len(s) + k]

\* C30: a TagContext call with a current Context appends exactly one
\* PinRecord, carrying the given task id, policy, ttl_steps, importance and
\* notes and as message ids either the explicit list or, when none is given,
\* the up to 5 most recent assistant/tool message ids, and returns ToolOk.
\* Two cases append nothing: with no current Context it returns ToolError;
\* with no explicit ids and no assistant or tool message in the history it
\* returns ToolOk reporting that no recent messages were found.
C30_TagContextOutcome ==
  [][ \A has_context \in BOOLEAN : \A params \in TagParams :
        TagContext(has_context, params) =>
          IF ~has_context
          THEN meta_call'.status = "ToolError" /\ pins' = pins
          ELSE IF params.infer /\ AssistantAndTool(context.history) = <<>>
          THEN /\ meta_call'.status = "ToolOk"
               /\ meta_call'.output = "No recent messages found"
               /\ pins' = pins
          ELSE /\ meta_call'.status = "ToolOk"
               /\ meta_call'.output = "Tagged"
               /\ pins' = Append(pins, LastOf(pins'))
               /\ LastOf(pins').type = "tag"
               /\ LastOf(pins').task_id = params.task_id
               /\ LastOf(pins').policy = params.policy
               /\ LastOf(pins').ttl_steps = params.ttl_steps
               /\ LastOf(pins').importance = params.importance
               /\ LastOf(pins').notes = params.notes
               /\ IF params.infer
                  THEN IsLastOf(LastOf(pins').message_ids, 5,
                                AssistantAndTool(context.history))
                  ELSE LastOf(pins').message_ids = params.message_ids
    ]_vars
\* A call without explicit ids has tagged 5 of the 6 assistant and tool
\* messages of the history, with the non-default settings.
C30_Witness ==
  /\ meta_call.op = "TagContext" /\ meta_call.output = "Tagged"
  /\ pc = "tools"
  /\ Len(AssistantAndTool(context.history)) > 5
  /\ Len(pins) = 1
  /\ pins[1].message_ids =
       SubSeq(AssistantAndTool(context.history), 2, 6)
  /\ pins[1].task_id = 2 /\ pins[1].policy = "pin_process"
  /\ pins[1].importance = 5 /\ pins[1].notes = "keep"

\* The step is _run_soul_command returning or raising.
CommandEnds == shell.pc = "run_soul" /\ shell'.pc # "run_soul"

\* C31: _run_soul_command returns True iff the run completed without an
\* exception; for LLMNotSet, ChatProviderError, MaxStepsReached and
\* RunCancelled it returns False without re-raising and the prompt loop goes
\* on; any other exception is re-raised; in every case the SIGINT handler it
\* installed is removed exactly once before it returns or raises.
C31_RunSoulCommandOutcome ==
  [][ /\ CommandEnds =>
           /\ (shell'.ret = "True") <=> (outcome = "finished" /\ raised = NoError)
           /\ (outcome \in {"LLMNotSet", "ChatProviderError",
                            "MaxStepsReached", "Cancelled"}) =>
                (shell'.ret = "False" /\ shell'.pc = "prompt")
           /\ (outcome \notin {"finished", "LLMNotSet", "ChatProviderError",
                               "MaxStepsReached", "Cancelled"}) =>
                (shell'.ret = "raised" /\ shell'.pc = "exited")
           /\ shell'.ret \in {"True", "False", "raised"}
           /\ shell.handlers = 1 /\ shell'.handlers = 0
           /\ shell'.removed = 1
      /\ (shell'.pc = "run_soul") =>
           (shell'.handlers = 1 /\ shell'.removed = 0)
    ]_vars
\* A first command was interrupted and returned False; the second one ran
\* into an AssertionError, which was re-raised with the handler removed.
C31_Witness ==
  /\ shell.pc = "exited" /\ shell.ret = "raised"
  /\ outcome = "AssertionError" /\ run_no = 2
  /\ shell.handlers = 0 /\ shell.removed = 1

\* Where the loop is while the compaction it announced is in progress.
Compacting ==
  pc \in {"compact_call", "compact_revert", "compact_checkpoint",
          "compact_append"}

\* C32 (amended): every CompactionBegin the loop emits is the last event of
\* the wire while the compaction is in progress, and is then followed at
\* once by CompactionEnd when the compaction succeeds, or by StepInterrupted
\* and nothing else when the compaction provider call fails after its
\* retries or the run is cancelled during compaction: the run then ends
\* without a CompactionEnd.
C32_CompactionEndsOrInterrupted ==
  \A i \in DOMAIN wire :
    wire[i] = CompactionBegin =>
      \/ i = Len(wire) /\ Compacting
      \/ i < Len(wire) /\ wire[i + 1] = CompactionEnd
      \/ /\ i + 1 = Len(wire) /\ wire[i + 1] = StepInterrupted
         /\ pc = "idle" /\ outcome \in {"ChatProviderError", "Cancelled"}
\* C32 as stated: every CompactionBegin is followed by a CompactionEnd before
\* the next StepBegin and before the run terminates.
C32_CompactionEndFollows ==
  \A i \in DOMAIN wire :
    wire[i] = CompactionBegin =>
      \/ i = Len(wire) /\ Compacting
      \/ \E j \in (i + 1)..Len(wire) :
           /\ wire[j] = CompactionEnd
           /\ \A k \in (i + 1)..(j - 1) : wire[k].type # "StepBegin"
\* The compaction call of the second step has failed at its last attempt and
\* the run has ended with CompactionBegin, StepInterrupted on the wire.
C32_Witness ==
  /\ pc = "idle" /\ outcome = "ChatProviderError"
  /\ calls = max_retries_per_step
  /\ wire = <<StepBeginEvent(1), StepBeginEvent(2), CompactionBegin,
              StepInterrupted>>

\* The step ends a loop iteration: the run ends or the loop is back at its
\* top.
IterationEnds == pc \in InIteration /\ pc' \in {"idle", "loop_top"}

\* C33: when a loop iteration ends in any way (run finished, next step,
\* time-travel replay, provider error, cancellation), no time-travel signal
\* is left pending in the signal producer; hence no signal is pending when a
\* step takes its checkpoint, and a step never consumes a signal that was
\* registered during an earlier step or an earlier run.
C33_NoSignalLeftPending ==
  [][ /\ IterationEnds => pending_dmail' = -1
      /\ (pc = "checkpoint" /\ pc' = "provider") => pending_dmail = -1
    ]_vars

\* The history holds the advisory message of a time-travel replay.
Replayed == \E i \in DOMAIN context.history : context.history[i].role = "dmail"

\* C34 (amended): when every provider call, compaction call and tool
\* execution returns and nobody cancels the run, a run that has started
\* eventually terminates or begins a time-travel replay: a run that never
\* terminates replays infinitely often, and a run whose turns stop sending
\* time-travel signals terminates (finished, MaxStepsReached or a provider
\* error).
C34_TerminatesOrReplays ==
  (outcome = "running") ~> (pc = "idle" \/ pc = "bttf_revert")

\* C34 (as claimed): under the same assumptions every run eventually
\* terminates, whatever tool calls, rejections and time-travel signals the
\* turns of the model produce.
C34_RunTerminates == (outcome = "running") ~> (pc = "idle")

\* A run that replayed a step and then went on to its last step, where it
\* ended with MaxStepsReached.
C34_Witness ==
  /\ pc = "idle" /\ outcome = "MaxStepsReached"
  /\ ~Counting
  /\ Replayed

\* The Context is as the latest checkpoint captured it.
AsCheckpointed ==
  /\ context.checkpoints # <<>>
  /\ LastOf(context.checkpoints).len = Len(context.history)
  /\ LastOf(context.checkpoints).tokens = context.token_count

\* C35: failed provider attempts and the backoff waits between retries leave
\* Context unchanged: a failed attempt of the step's provider call or of the
\* compaction call, whether tenacity retries or raises after it, changes
\* neither history nor checkpoint list nor token count, so that Context is
\* the same before the first attempt and after the last one; during the
\* provider call of a step Context is as the step's checkpoint left it, and
\* the only step of the loop that modifies it from there is the one that
\* follows a successful result (the token count set to usage.input).
C35_FailedAttemptsFrame ==
  [][ /\ AttemptFailed => context' = context
      /\ (pc = "provider" /\ run_no = 1) => AsCheckpointed
      /\ (pc \in {"provider", "compact_call"} /\ context' # context
            /\ orphans' = orphans)
           => /\ pc = "provider" /\ pc' = "tools"
              /\ last_err' = NoError
              /\ result'.usage.some
              /\ context' = UpdateTokenCount(context, result'.usage.input)
    ]_vars

\* The provider call of the second step of a second run succeeded at its
\* last attempt: max_retries_per_step - 1 failures and waits lie behind it.
C35_Witness ==
  /\ pc = "tools" /\ run_no = 2 /\ step_no = 2
  /\ calls = max_retries_per_step /\ attempt = max_retries_per_step
  /\ last_err = NoError
  /\ result.usage.some

\* C36: every PinRecord that TagContext writes to the metadata log protects
\* at least one message: its message_ids is never empty, whether the ids were
\* given explicitly or inferred from recent messages.
C36_PinProtectsMessage ==
  \A i \in DOMAIN pins :
    pins[i].type = "tag" => pins[i].message_ids # <<>>

\* What current_tool_call holds with the calls hs of handle in progress: the
\* tool call of the innermost one, None when there is none.
AmbientFor(hs) == IF hs = <<>> THEN NoToolCall ELSE LastOf(hs).tool_call

\* C37: CustomToolset.handle sets the ambient current_tool_call to the
\* handled tool call for the duration of the dispatch and restores it
\* afterwards: while a call of handle is in progress current_tool_call is
\* the tool call of the innermost one, and when handle returns or raises
\* current_tool_call has the value it had before that call (None at top
\* level, the tool call of the enclosing handle when nested), for every
\* sequence of nested and consecutive calls.
C37_ToolCallSetAndRestored ==
  [][ /\ current_tool_call = AmbientFor(handling)
      /\ (Len(handling') > Len(handling))
           => /\ current_tool_call' = LastOf(handling').tool_call
              /\ LastOf(handling').token.old_value = current_tool_call
      /\ (handled'.n = handled.n + 1)
           => /\ handled'.how \in {"returned", "raised"}
              /\ handled'.tool_call = current_tool_call
              /\ handling' = SubSeq(handling, 1, Len(handling) - 1)
              /\ current_tool_call' = LastOf(handling).token.old_value
              /\ current_tool_call' = AmbientFor(handling')
    ]_vars

\* A nested call of handle has raised after an earlier call had returned, and
\* the tool call of the enclosing handle, a different one, is current again.
C37_Witness ==
  /\ handled.n >= 2 /\ handled.how = "raised"
  /\ Len(handling) = 1
  /\ current_tool_call = handling[1].tool_call
  /\ current_tool_call # handled.tool_call
  /\ handling[1].token.old_value = NoToolCall

====
